---- MODULE Spec2Model ----
(***************************************************************************)
(* A model of the subtitle timeline engine of video-dubbing:               *)
(*   - utils.py      len_hybrid, sub_hybrid, run_tasks                     *)
(*   - translate.py  LLMTranslator.translate_lines, translate_srt          *)
(*   - llm.py        LLMClient.ask                                         *)
(*   - srt.py        SRT.split_by_length, SRT.sections, SRT.with_texts     *)
(* A Python str is a sequence of characters; a character is written as a   *)
(* short ASCII name and carries the Unicode general category that          *)
(* unicodedata.category returns for it.  Python indices are 0-based, TLA+  *)
(* sequences 1-based: s[i] of the source is s[i + 1] here.                 *)
(***************************************************************************)
EXTENDS Integers, Sequences, FiniteSets, TLC

VARIABLES
    \* ---- text metrics (utils.py) ----
    s,          \* the str argument of len_hybrid / sub_hybrid
    start,      \* the start argument of sub_hybrid
    stop,       \* the stop argument of sub_hybrid (an int or None)
    op,         \* which function has been called on (s, start, stop)
    ret,        \* what the call returned or raised
    ret2,       \* the second call's outcome, when two slices are taken
    units,      \* the value returned by len_hybrid
    \* ---- timeline reflow (srt.py) ----
    entries,          \* SRT.entries of the timeline the operation is called on
    max_length,       \* the max_length argument
    min_tail_length,  \* the min_tail_length argument
    sep,              \* the sep argument (a str)
    srtOp,            \* which SRT method has been called
    out,              \* what it returned (the new SRT's entries) or raised
    ref,              \* the reference timeline handed to split_with_ref
    modify_start,     \* the modify_start argument of correct_time
    interval,         \* the interval argument of the merge operations, in ticks
    min_length,       \* the min_length argument of merge_sentences
    self_after,       \* SRT.entries of the timeline after the call
    \* ---- LLMTranslator.translate_lines (translate.py) ----
    lines,      \* the lines argument: a list of str
    try_html,   \* the try_html argument
    attempt,    \* iterations of "for _ in range(try_html)" completed
    tlPc,       \* "run" while the coroutine runs, then "done"
    result,     \* what translate_lines returned or raised
    requests,   \* the requests sent to the LLM so far, oldest first
    parsed,     \* per tag-protocol request: the length of the list it parsed into
    \* ---- translate_srt (translate.py); try_html above is its argument too ----
    srt,             \* the entries of the srt argument
    secs,            \* translate_srt's local "sections": a list of lists of entries
    batch_size,      \* the batch_size argument
    max_concurrent,  \* the max_concurrent argument
    sem,             \* the value of run_tasks' asyncio.Semaphore
    secPc,           \* per section: where _task_with_semaphore(_translate_srt_section) is
    task,            \* per batch: the translate_lines task gathered by its section
    secOut,          \* per section: the SRT entries _translate_srt_section returned
    translated,      \* what translate_srt returned or raised
    overtaken,       \* a batch has finished while an earlier batch was still running
    \* ---- LLMClient.ask (llm.py), one coroutine per caller ----
    user_prompt,     \* per caller: the user_prompt argument (a str or None)
    clientSem,       \* the value of LLMClient.sem
    askPc,           \* per caller: where the coroutine is
    count,           \* per caller: the local "count"
    sent,            \* per caller: the messages of each create() call so far
    got,             \* per caller: the outcome of each create() call so far
    slept,           \* per caller: the arguments of its time.sleep calls so far
    askRet,          \* per caller: what ask returned or raised
    \* ---- TTSProcessor._adjust_time (tts.py) ----
    adjIn,           \* the srt argument: its entries
    adjSrt,          \* the local srt: the filled copy, changed by the loop
    audios,          \* the durations of the local "audios"
    min_borrow,      \* the local min_borrow (after line 260)
    has_time,        \* the local has_time
    adjI,            \* the loop index i; len(audios) once the loop is over
    lent,            \* the lines that have lent time so far
    borrowed,        \* the lines that have borrowed time so far
    segs,            \* the AudioSegments returned
    \* ---- find_best_matches (tts.py) ----
    matchLines,      \* the lines argument: a list of str
    words,           \* the words argument: a list of str
    results,         \* the local "results"
    matched,         \* what find_best_matches returned or raised
    \* ---- VideoDubbing.run (cli.py) ----
    args,            \* general_args: the asr, translate and tts switches
    hasVideo,        \* general_args.videos is given (else only subtitles)
    subFile,         \* per file: the subtitle at asr_sub exists on disk
    runPc,           \* where run is: "loop", "returned" or "raised"
    runI,            \* the files _process_one_file has been called for
    coro,            \* per file: where _run_translate_and_tts is
    future,          \* per file: the outcome of the coroutine's Future
    failed_tasks,    \* VideoDubbing.failed_tasks
    startedStages,   \* per file: the stages that have been started
    raisedStages,    \* per file: the stages that have raised
    reported,        \* the "failed tasks:" report has been logged
    runRet,          \* what run returned or raised
    \* ---- TTSProcessor._text_to_speech (tts.py) ----
    synthFile,       \* output_file on disk: None, or the audio chunks in it
    synthPc,         \* "call", "stream" (file open, chunks arriving), "returned", "raised"
    synthTry,        \* the number of the current call of _tts
    synthCount,      \* the local "count"
    synthSlept,      \* the arguments of the time.sleep calls so far
    synthFailedAt,   \* where each failed call of _tts failed
    synthRet,        \* what _text_to_speech returned or raised
    \* ---- AsyncBackgroundExecutor (executor.py) ----
    pending_futures, \* self._pending_futures
    futState,        \* per coroutine: "none", "running" or "finished" (its Future)
    registered,      \* per coroutine: _remove_future is in the Future's callback list
    toInvoke,        \* per coroutine: the loop thread has yet to invoke the callbacks
    removedBy,       \* per coroutine: the thread that ran _remove_future, or "none"
    callerPc,        \* where the caller thread is
    callerK,         \* the coroutines execute has been called for
    current_snapshot, \* wait_all's local current_futures
    waitRet,         \* what wait_all returned
    \* ---- TTSProcessor.srt_tts (tts.py) ----
    ttsSrt,          \* the srt argument: len(e) of every entry e
    ttsMaxLength,    \* the max_length argument
    section_indexes, \* the (start, end) pairs, 0-based and end-exclusive
    ttsStart,        \* the local "start"
    ttsLength,       \* the local "length"
    ttsI,            \* the entries the loop has visited
    ttsPc,           \* "loop", "gather", "done"
    ttsRet,          \* what asyncio.gather of the _task calls gave
    \* ---- the event loop thread of AsyncBackgroundExecutor (executor.py) ----
    loopKind,        \* per task: "ask" (LLMClient.ask) or "tts" (_task of srt_tts)
    loopPc,          \* per task: "called", "limiter", "request", "sleep", "done"
    loopThread,      \* the task the loop thread is inside, None between callbacks
    loopSem,         \* free slots of LLMClient.sem
    loopHolds,       \* per task: what it has acquired of "sem" and "limiter"
    loopCount,       \* per task: the local "count"
    loopWait         \* per task: seconds left of its time.sleep

textVars == <<s, start, stop, op, ret, ret2, units>>
flowVars == <<ref, modify_start, interval, min_length, self_after>>
srtVars == <<entries, max_length, min_tail_length, sep, srtOp, out, flowVars>>
linesVars == <<lines, try_html, attempt, tlPc, result, requests, parsed>>
trVars == <<srt, secs, batch_size, max_concurrent, sem, secPc, task, secOut, translated, overtaken>>
askVars == <<user_prompt, clientSem, askPc, count, sent, got, slept, askRet>>
adjVars == <<adjIn, adjSrt, audios, min_borrow, has_time, adjI, lent, borrowed, segs>>
matchVars == <<matchLines, words, results, matched>>
runVars == <<args, hasVideo, subFile, runPc, runI, coro, future, failed_tasks,
             startedStages, raisedStages, reported, runRet>>
synthVars == <<synthFile, synthPc, synthTry, synthCount, synthSlept, synthFailedAt, synthRet>>
execVars == <<pending_futures, futState, registered, toInvoke, removedBy, callerPc,
              callerK, current_snapshot, waitRet>>
ttsVars == <<ttsSrt, ttsMaxLength, section_indexes, ttsStart, ttsLength, ttsI, ttsPc, ttsRet>>
loopVars == <<loopKind, loopPc, loopThread, loopSem, loopHolds, loopCount, loopWait>>
lateVars == <<synthVars, execVars, ttsVars, loopVars>>
restVars == <<adjVars, matchVars, runVars, lateVars>>
vars == <<textVars, srtVars, linesVars, trVars, askVars, restVars>>

----------------------------------------------------------------------------
(* Bounds of the model. *)

\* longest str handed to len_hybrid / sub_hybrid
MaxLen == 3
\* most characters in the texts of one timeline, all entries together
MaxText == 4
\* largest max_length and min_tail_length handed to the reflow operations
MaxLimit == 3
\* most lines in one call of translate_lines
MaxLines == 3
\* largest try_html
MaxTry == 2
\* longest free-form reply of the LLM to a plain translation request
MaxReply == 3
\* most entries in a timeline handed to translate_srt
MaxEntries == 3
\* LLMClient.ask: the coroutines calling it, and the failures of one call
MaxCallers == 2
\* most entries in a timeline handed to correct_time and the merge operations
MaxFlow == 3
\* latest start of such an entry, in half seconds
MaxStart == 2
\* most lines handed to _adjust_time
MaxAdj == 3
\* find_best_matches: most lines, longest line, most words
MaxMatchLines == 3
MaxLineLen == 2
MaxWords == 4
\* VideoDubbing.run: the input files
MaxFiles == 2
\* _text_to_speech: the failed calls of _tts, the audio chunks of one call
MaxSynthFail == 3
MaxChunks == 2
\* AsyncBackgroundExecutor: the coroutines submitted before wait_all
MaxTasks == 3
MaxFail == 3
\* srt_tts: the entries of the timeline, the longest text, the largest max_length
MaxTtsLines == 3
MaxTtsText == 3
MaxTtsLimit == 2
\* the event loop: the requests scheduled on it, the failures of one request
MaxLoopTasks == 3
MaxLoopFail == 2

----------------------------------------------------------------------------
(* Python values and built-ins. *)

\* an "int | None" argument: None, or Some(k) for the int k
None == <<>>
Some(k) == <<k>>

Min(a, b) == IF a < b THEN a ELSE b
Max(a, b) == IF a > b THEN a ELSE b

\* a value returned / an exception raised
Return(v) == [exc |-> "none", val |-> v]
Raise(e) == [exc |-> e, val |-> <<>>]
NoCall == [exc |-> "nocall", val |-> <<>>]

\* seq[lo:hi] with Python's rules: negative bounds count from the end,
\* out-of-range bounds are clamped, hi = None means "to the end"
PySliceBound(seq, i) ==
    IF i < 0 THEN Max(i + Len(seq), 0) ELSE Min(i, Len(seq))
PySlice(seq, lo, hi) ==
    IF PySliceBound(seq, lo) >= PySliceBound(seq, hi) THEN <<>>
    ELSE SubSeq(seq, PySliceBound(seq, lo) + 1, PySliceBound(seq, hi))
\* seq[lo:]
PySliceFrom(seq, lo) == PySlice(seq, lo, Len(seq))

\* seq[i]: IndexError unless -len <= i < len
PyIndexOk(seq, i) == -Len(seq) <= i /\ i < Len(seq)
PyIndex(seq, i) == IF i < 0 THEN seq[i + Len(seq) + 1] ELSE seq[i + 1]

----------------------------------------------------------------------------
(* utils.py: character classes. *)

\* unicodedata.category of the characters the model uses; "zh" stands for a
\* CJK ideograph such as U+4E2D, "hellip" for U+2026 (horizontal ellipsis)
category(c) ==
    CASE c = "a" -> "Ll"
      [] c = "A" -> "Lu"
      [] c = "7" -> "Nd"
      [] c = "_" -> "Pc"
      [] c = "-" -> "Pd"
      [] c = " " -> "Zs"
      [] c = "," -> "Po"
      [] c = "." -> "Po"
      [] c = "(" -> "Ps"
      [] c = ")" -> "Pe"
      [] c = "$" -> "Sc"
      [] c = "+" -> "Sm"
      [] c = "zh" -> "Lo"
      [] c = "hellip" -> "Po"
      [] c = "<" -> "Sm"
      [] c = ">" -> "Sm"
      [] c = "/" -> "Po"
      [] c = "L" -> "Lu"
      [] c \in {"1", "2", "3", "4", "5", "6", "8", "9"} -> "Nd"
      [] c = "\n" -> "Cc"

SPACE == {"Zs", "Cc", "Po", "Ps", "Pe", "Pi", "Pf"}
LETTER == {"Ll", "Lu", "Nd", "Nl", "No", "Pc", "Pd"}

----------------------------------------------------------------------------
(* utils.py: len_hybrid. *)

\* the for loop of len_hybrid from character k on; returns len(text) - skip
RECURSIVE len_hybrid_loop(_, _, _, _)
len_hybrid_loop(text, k, skip, in_word) ==
    IF k > Len(text) THEN Len(text) - skip
    ELSE IF category(text[k]) \in SPACE
        THEN len_hybrid_loop(text, k + 1, skip + 1, FALSE)
    ELSE IF category(text[k]) \in LETTER
        THEN IF ~in_word
             THEN len_hybrid_loop(text, k + 1, skip, TRUE)
             ELSE len_hybrid_loop(text, k + 1, skip + 1, in_word)
    ELSE len_hybrid_loop(text, k + 1, skip, FALSE)

len_hybrid(text) == len_hybrid_loop(text, 1, 0, FALSE)

----------------------------------------------------------------------------
(* utils.py: sub_hybrid. *)

\* the first for loop: chars is s[start:] as sliced when the loop begins;
\* returns start as the loop leaves it
RECURSIVE sub_hybrid_start(_, _, _, _)
sub_hybrid_start(chars, k, st, in_word) ==
    IF k > Len(chars) THEN st
    ELSE IF category(chars[k]) \in SPACE
        THEN sub_hybrid_start(chars, k + 1, st + 1, FALSE)
    ELSE IF category(chars[k]) \in LETTER /\ in_word
        THEN sub_hybrid_start(chars, k + 1, st + 1, in_word)
    ELSE st

\* the second for loop: chars is s[stop - 1:]; returns stop as the loop leaves it
RECURSIVE sub_hybrid_stop(_, _, _)
sub_hybrid_stop(chars, k, sp) ==
    IF k > Len(chars) THEN sp
    ELSE IF category(chars[k]) \in LETTER
        THEN sub_hybrid_stop(chars, k + 1, sp + 1)
    ELSE sp

\* lines 112-132: from the moved start on
sub_hybrid_tail(str, st, stop_) ==
    IF stop_ = None THEN Return(PySliceFrom(str, st))
    ELSE IF stop_[1] <= st THEN Return(<<>>)
    ELSE LET sp == stop_[1]
             sp2 == sub_hybrid_stop(PySliceFrom(str, sp - 1), 1, sp)
             modified == sp2 # sp
         IN  IF modified /\ ~PyIndexOk(str, sp2 - 1) THEN Raise("IndexError")
             ELSE IF modified /\ PyIndex(str, sp2 - 1) \notin SPACE
                 THEN Return(PySlice(str, st, sp2 - 1))
             ELSE Return(PySlice(str, st, sp2))

\* lines 97-111: from the normalised start and stop on
sub_hybrid_body(str, st, sp) ==
    LET in_word == IF st > 0 THEN category(str[st]) \in LETTER ELSE FALSE
        st2 == sub_hybrid_start(PySliceFrom(str, st), 1, st, in_word)
    IN  sub_hybrid_tail(str, st2, sp)

\* the plain slice s[start:stop], which cuts words
sub_plain(str, st, sp) ==
    Return(IF sp = None THEN PySliceFrom(str, st) ELSE PySlice(str, st, sp[1]))

sub_hybrid(str, st, sp) ==
    LET st1 == IF st < 0 THEN st + Len(str) ELSE st
    IN  IF st1 >= Len(str) THEN Return(<<>>)
        ELSE IF sp = None THEN sub_hybrid_body(str, st1, None)
        ELSE LET sp1 == IF sp[1] < 0 THEN sp[1] + Len(str) ELSE sp[1]
             IN  IF sp1 <= st1 THEN Return(<<>>)
                 ELSE IF sp1 >= Len(str) THEN sub_hybrid_body(str, st1, None)
                 ELSE sub_hybrid_body(str, st1, Some(sp1))

----------------------------------------------------------------------------
(* The text-metric functions applied to every small input. *)

\* the characters input strings are made of
TextChars == {"a", " ", ",", "zh", "$"}

RECURSIVE StringsUpTo(_, _)
StringsUpTo(chars, n) ==
    IF n = 0 THEN {<<>>}
    ELSE LET shorter == StringsUpTo(chars, n - 1)
         IN  shorter \cup {Append(t, c) : t \in {u \in shorter : Len(u) = n - 1}, c \in chars}

TextIndices == (0 - MaxLen - 2) .. (MaxLen + 2)

\* the variables of the parts a specification leaves out keep these values
TextUnused ==
    /\ s = <<>> /\ start = 0 /\ stop = None /\ op = "unused"
    /\ ret = NoCall /\ ret2 = NoCall /\ units = -1
FlowUnused ==
    /\ ref = <<>> /\ modify_start = FALSE /\ interval = 0 /\ min_length = 0
    /\ self_after = <<>>
SrtUnused ==
    /\ entries = <<>> /\ max_length = 0 /\ min_tail_length = 0 /\ sep = <<>>
    /\ srtOp = "unused" /\ out = NoCall
    /\ FlowUnused
LinesUnused ==
    /\ lines = <<>> /\ try_html = 0 /\ attempt = 0 /\ tlPc = "unused"
    /\ result = NoCall /\ requests = <<>> /\ parsed = <<>>
TrUnused ==
    /\ srt = <<>> /\ secs = <<>> /\ batch_size = 0 /\ max_concurrent = 0 /\ sem = 0
    /\ secPc = <<>> /\ task = <<>> /\ secOut = <<>>
    /\ translated = NoCall /\ overtaken = FALSE
AdjUnused ==
    /\ adjIn = <<>> /\ adjSrt = <<>> /\ audios = <<>> /\ min_borrow = 0
    /\ has_time = <<>> /\ adjI = 0 /\ lent = {} /\ borrowed = {} /\ segs = NoCall
MatchUnused ==
    /\ matchLines = <<>> /\ words = <<>> /\ results = <<>> /\ matched = NoCall
RunUnused ==
    /\ args = <<>> /\ hasVideo = FALSE /\ subFile = <<>> /\ runPc = "unused"
    /\ runI = 0 /\ coro = <<>> /\ future = <<>> /\ failed_tasks = <<>>
    /\ startedStages = <<>> /\ raisedStages = <<>> /\ reported = FALSE
    /\ runRet = NoCall
SynthUnused ==
    /\ synthFile = <<>> /\ synthPc = "unused" /\ synthTry = 0 /\ synthCount = 0
    /\ synthSlept = <<>> /\ synthFailedAt = <<>> /\ synthRet = NoCall
ExecUnused ==
    /\ pending_futures = {} /\ futState = <<>> /\ registered = <<>> /\ toInvoke = <<>>
    /\ removedBy = <<>> /\ callerPc = "unused" /\ callerK = 0
    /\ current_snapshot = {} /\ waitRet = NoCall
TtsUnused ==
    /\ ttsSrt = <<>> /\ ttsMaxLength = 0 /\ section_indexes = <<>> /\ ttsStart = 0
    /\ ttsLength = 0 /\ ttsI = 0 /\ ttsPc = "unused" /\ ttsRet = NoCall
LoopUnused ==
    /\ loopKind = <<>> /\ loopPc = <<>> /\ loopThread = <<>> /\ loopSem = 0
    /\ loopHolds = <<>> /\ loopCount = <<>> /\ loopWait = <<>>
\* the groups declared after VideoDubbing.run are idle, all but group g
LateUnusedBut(g) ==
    /\ IF g = "synth" THEN TRUE ELSE SynthUnused
    /\ IF g = "exec" THEN TRUE ELSE ExecUnused
    /\ IF g = "tts" THEN TRUE ELSE TtsUnused
    /\ IF g = "loop" THEN TRUE ELSE LoopUnused
LateUnused == LateUnusedBut("none")
RestUnused == AdjUnused /\ MatchUnused /\ RunUnused /\ LateUnused
AskUnused ==
    /\ user_prompt = <<>> /\ clientSem = 0 /\ askPc = <<>> /\ count = <<>>
    /\ sent = <<>> /\ got = <<>> /\ slept = <<>> /\ askRet = <<>>

TextInit ==
    /\ s \in StringsUpTo(TextChars, MaxLen)
    /\ start \in TextIndices
    /\ stop \in {Some(k) : k \in TextIndices} \cup {None}
    /\ op = "none"
    /\ ret = NoCall
    /\ ret2 = NoCall
    /\ units = -1
    /\ SrtUnused /\ LinesUnused /\ TrUnused /\ AskUnused /\ RestUnused

\* len_hybrid(s)
CallLenHybrid ==
    /\ op = "none"
    /\ op' = "len_hybrid"
    /\ units' = len_hybrid(s)
    /\ UNCHANGED <<s, start, stop, ret, ret2>>
    /\ UNCHANGED <<srtVars, linesVars, trVars, askVars, restVars>>

\* sub_hybrid(s, start, stop)
CallSubHybrid ==
    /\ op = "none"
    /\ op' = "sub_hybrid"
    /\ ret' = sub_hybrid(s, start, stop)
    /\ UNCHANGED <<s, start, stop, ret2, units>>
    /\ UNCHANGED <<srtVars, linesVars, trVars, askVars, restVars>>

\* sub_hybrid(s, 0, i) and sub_hybrid(s, i, None) for an index i = start of s
CallSlicePair ==
    /\ op = "none"
    /\ 0 <= start /\ start <= Len(s)
    /\ op' = "slice_pair"
    /\ ret' = sub_hybrid(s, 0, Some(start))
    /\ ret2' = sub_hybrid(s, start, None)
    /\ UNCHANGED <<s, start, stop, units>>
    /\ UNCHANGED <<srtVars, linesVars, trVars, askVars, restVars>>

TextNext == CallLenHybrid \/ CallSubHybrid \/ CallSlicePair

TextSpec == TextInit /\ [][TextNext]_vars

----------------------------------------------------------------------------
(* Claims about the text metrics, checked under TextSpec. *)

\* C7: hybrid slice conservation. For every string s and every index i with
\* 0 <= i <= len(s), both sub_hybrid(s, 0, i) and sub_hybrid(s, i, None)
\* return a value, and the hybrid lengths of the two slices add up to the
\* hybrid length of s.
HybridSliceConservation ==
    op = "slice_pair" =>
        /\ ret.exc = "none"
        /\ ret2.exc = "none"
        /\ len_hybrid(ret.val) + len_hybrid(ret2.val) = len_hybrid(s)

\* the character classes as C8 words them: word-forming characters are
\* letters, digits, connector/dash punctuation and non-punctuation symbols;
\* separators are whitespace, control characters and the other punctuation
WordFormingCategories == {"Ll", "Lu", "Nd", "Nl", "No", "Pc", "Pd", "Sm", "Sc", "Sk", "So"}
SeparatorCategories == {"Zs", "Cc", "Po", "Ps", "Pe", "Pi", "Pf"}

\* the number of units of text[k..]: one per maximal word-forming run, none
\* per separator, one per other character
RECURSIVE UnitsFrom(_, _)
UnitsFrom(text, k) ==
    IF k > Len(text) THEN 0
    ELSE IF category(text[k]) \in SeparatorCategories THEN UnitsFrom(text, k + 1)
    ELSE IF category(text[k]) \in WordFormingCategories
                /\ k > 1 /\ category(text[k - 1]) \in WordFormingCategories
        THEN UnitsFrom(text, k + 1)
    ELSE 1 + UnitsFrom(text, k + 1)

\* C8: len_hybrid counts a maximal run of word-forming characters (letters,
\* digits, connector/dash punctuation, underscore, non-punctuation symbols)
\* as one unit, a separator as zero units and any other character as one.
LenHybridCountsWordRuns ==
    op = "len_hybrid" => units = UnitsFrom(s, 1)

\* index k (0-based, between characters k-1 and k) lies strictly inside a
\* run of LETTER characters of str
InsideWord(str, k) ==
    /\ 0 < k /\ k < Len(str)
    /\ category(str[k]) \in LETTER
    /\ category(str[k + 1]) \in LETTER

\* C9: sub_hybrid never places a boundary inside a word-forming run. For
\* every s, start and stop the returned text is some s[a:b] with neither a
\* nor b strictly inside a run of word-forming characters.
SubHybridKeepsWordsWhole ==
    (op = "sub_hybrid" /\ ret.exc = "none") =>
        \E a \in 0 .. Len(s) : \E b \in a .. Len(s) :
            /\ PySlice(s, a, b) = ret.val
            /\ ~InsideWord(s, a)
            /\ ~InsideWord(s, b)

----------------------------------------------------------------------------
(* srt.py: SRTEntry and SRT.split_by_length.                               *)
(* A timestamp is a float number of seconds in the source; here it is a    *)
(* whole number of ticks, TimeDen ticks to the second.  TimeDen is a       *)
(* multiple of every text length that occurs, so the quotient in           *)
(* "duration" is exact (float rounding is not modelled).                   *)

RECURSIVE Gcd(_, _)
Gcd(a, b) == IF b = 0 THEN a ELSE Gcd(b, a % b)
RECURSIVE LcmUpTo(_)
LcmUpTo(n) == IF n <= 1 THEN 1 ELSE (LcmUpTo(n - 1) * n) \div Gcd(LcmUpTo(n - 1), n)
TimeDen == LcmUpTo(MaxText)

SRTEntry(index, st, end, text) == [index |-> index, start |-> st, end |-> end, text |-> text]

\* str.find(sub, from) for from >= 0: the lowest index >= from where sub
\* occurs in str, or -1
PyFind(str, sub, from) ==
    LET hits == {k \in from .. (Len(str) - Len(sub)) : SubSeq(str, k + 1, k + Len(sub)) = sub}
    IN  IF hits = {} THEN -1 ELSE CHOOSE k \in hits : \A j \in hits : k <= j

\* new_entries[-1].text += sep + s; new_entries[-1].end = entry.end
MergeTail(new_entries, sep_, str, entry) ==
    [new_entries EXCEPT ![Len(new_entries)] =
        [@ EXCEPT !.text = @ \o sep_ \o str, !.end = entry.end]]

\* the end timestamp of the piece that begins at st (line 336)
PieceEnd(st, duration, entry) == Min(st + duration, entry.end)

\* the while loop of split_by_length for one long entry (lines 327-340);
\* yields new_entries and i as the loop leaves them, or the exception
RECURSIVE split_while(_, _, _, _, _, _, _, _, _)
split_while(entry, str, st, split_index, duration, new_entries, i, min_tail, sep_) ==
    IF ~(split_index > 0) THEN [exc |-> "none", new_entries |-> new_entries, i |-> i]
    ELSE LET found == PyFind(str, sep_, split_index)
         IN  IF found = -1 /\ Len(str) < min_tail
             THEN IF new_entries = <<>>
                  THEN [exc |-> "IndexError", new_entries |-> new_entries, i |-> i]
                  ELSE [exc |-> "none",
                        new_entries |-> MergeTail(new_entries, sep_, str, entry),
                        i |-> i]
             ELSE LET end == PieceEnd(st, duration, entry)
                      piece == IF found > 0 THEN PySlice(str, 0, found) ELSE str
                  IN  split_while(entry, PySliceFrom(str, found + 1), end, found, duration,
                                  Append(new_entries, SRTEntry(i, st, end, piece)),
                                  i + 1, min_tail, sep_)

\* the for loop over the entries (lines 316-340), from entry k on
RECURSIVE split_entries(_, _, _, _, _, _, _)
split_entries(es, k, new_entries, i, max_len, min_tail, sep_) ==
    IF k > Len(es) THEN Return(new_entries)
    ELSE LET entry == es[k]
             entry_length == Len(entry.text)
         IN  IF entry_length <= max_len
             THEN split_entries(es, k + 1,
                      Append(new_entries, SRTEntry(i, entry.start, entry.end, entry.text)),
                      i + 1, max_len, min_tail, sep_)
             ELSE LET duration == ((max_len - 1) * (entry.end - entry.start)) \div entry_length
                      r == split_while(entry, entry.text, entry.start, max_len, duration,
                                       new_entries, i, min_tail, sep_)
                  IN  IF r.exc # "none" THEN Raise(r.exc)
                      ELSE split_entries(es, k + 1, r.new_entries, r.i, max_len, min_tail, sep_)

split_by_length(es, max_len, min_tail, sep_) ==
    split_entries(es, 1, <<>>, 1, max_len, min_tail, sep_)

----------------------------------------------------------------------------
(* The reflow operations applied to every small timeline. *)

\* the characters subtitle texts are made of
SrtChars == {"a", " ", "zh"}

\* timelines of one or two entries, numbered from 1, in chronological order
\* and without gaps: the first entry starts at second 0 or 1, an entry lasts
\* 1 or 2 seconds
EntryTexts == StringsUpTo(SrtChars, MaxText) \ {<<>>}
Timelines ==
    {<<SRTEntry(1, t0 * TimeDen, (t0 + d1) * TimeDen, x1)>> :
        t0 \in {0, 1}, d1 \in {1, 2}, x1 \in EntryTexts}
    \cup
    {<<SRTEntry(1, t0 * TimeDen, (t0 + d1) * TimeDen, x[1]),
       SRTEntry(2, (t0 + d1) * TimeDen, (t0 + d1 + d2) * TimeDen, x[2])>> :
        t0 \in {0, 1}, d1 \in {1, 2}, d2 \in {1, 2},
        x \in {y \in EntryTexts \X EntryTexts : Len(y[1]) + Len(y[2]) <= MaxText}}

SrtInit ==
    /\ entries \in Timelines
    /\ max_length \in 1 .. MaxLimit
    /\ min_tail_length \in 0 .. MaxLimit
    /\ sep \in {<<" ">>, <<>>}
    /\ srtOp = "none"
    /\ out = NoCall
    /\ FlowUnused
    /\ TextUnused /\ LinesUnused /\ TrUnused /\ AskUnused /\ RestUnused

\* SRT(entries).split_by_length(max_length, min_tail_length, sep)
CallSplitByLength ==
    /\ srtOp = "none"
    /\ srtOp' = "split_by_length"
    /\ out' = split_by_length(entries, max_length, min_tail_length, sep)
    /\ UNCHANGED <<entries, max_length, min_tail_length, sep, flowVars>>
    /\ UNCHANGED <<textVars, linesVars, trVars, askVars, restVars>>

SrtNext == CallSplitByLength

SrtSpec == SrtInit /\ [][SrtNext]_vars

----------------------------------------------------------------------------
(* Claims about the reflow operations, checked under SrtSpec. *)

\* C10: split-by-length timestamp boundary preservation. For a timeline of
\* one entry e whose text is longer than max_length, the pieces
\* split_by_length returns begin at e.start, end at e.end, and every
\* piece's end is the next piece's start.
SplitKeepsEntrySpan ==
    (/\ srtOp = "split_by_length"
     /\ Len(entries) = 1
     /\ Len(entries[1].text) > max_length
     /\ out.exc = "none") =>
        /\ Len(out.val) >= 1
        /\ out.val[1].start = entries[1].start
        /\ out.val[Len(out.val)].end = entries[1].end
        /\ \A k \in 1 .. (Len(out.val) - 1) : out.val[k].end = out.val[k + 1].start

----------------------------------------------------------------------------
(* translate.py: LLMTranslator.translate_lines.                            *)
(* The reply of LLMClient.ask is an "Optional[str]": None, or SomeStr(x).  *)

SomeStr(x) == <<x>>

\* str(i) for 1 <= i <= 9
Str(i) == <<<<"1", "2", "3", "4", "5", "6", "7", "8", "9">>[i]>>

\* str.count(sub): the number of non-overlapping occurrences, left to right
RECURSIVE PyCountFrom(_, _, _)
PyCountFrom(str, sub, from) ==
    IF PyFind(str, sub, from) = -1 THEN 0
    ELSE 1 + PyCountFrom(str, sub, PyFind(str, sub, from) + Len(sub))
PyCount(str, sub) == PyCountFrom(str, sub, 0)

\* sep.join(strs)
RECURSIVE PyJoin(_, _)
PyJoin(sep_, strs) ==
    IF strs = <<>> THEN <<>>
    ELSE IF Len(strs) = 1 THEN strs[1]
    ELSE strs[1] \o sep_ \o PyJoin(sep_, Tail(strs))

\* str.isspace() of one character
PyIsSpace(c) == category(c) = "Zs" \/ c = "\n"

\* str.strip()
RECURSIVE PyLStrip(_)
PyLStrip(str) ==
    IF str # <<>> /\ PyIsSpace(str[1]) THEN PyLStrip(Tail(str)) ELSE str
RECURSIVE PyRStrip(_)
PyRStrip(str) ==
    IF str # <<>> /\ PyIsSpace(str[Len(str)])
    THEN PyRStrip(SubSeq(str, 1, Len(str) - 1)) ELSE str
PyStrip(str) == PyRStrip(PyLStrip(str))

\* str.removesuffix(suffix)
PyRemoveSuffix(str, suffix) ==
    IF suffix # <<>> /\ Len(str) >= Len(suffix)
          /\ SubSeq(str, Len(str) - Len(suffix) + 1, Len(str)) = suffix
    THEN SubSeq(str, 1, Len(str) - Len(suffix))
    ELSE str

\* f"<L{i}>" and f"</L{i}>"
OpenTag(i) == <<"<", "L">> \o Str(i) \o <<">">>
CloseTag(i) == <<"<", "/", "L">> \o Str(i) \o <<">">>

\* line 58: the user prompt of the tag protocol
HtmlSrc(ls) ==
    PyJoin(<<"\n">>, [i \in 1 .. Len(ls) |-> OpenTag(i) \o ls[i] \o CloseTag(i)])

\* lines 75-81: the loop that cuts the reply, from line i on
RECURSIVE html_collect(_, _, _, _)
html_collect(res, n, i, list) ==
    IF i > n THEN list
    ELSE LET st == PyFind(res, OpenTag(i), 0)
             end == PyFind(res, CloseTag(i), 0)
         IN  IF st = -1 \/ end = -1 THEN <<>>
             ELSE html_collect(res, n, i + 1,
                               Append(list, PySlice(res, st + 3 + Len(Str(i)), end)))

\* _translate_lines_as_html, given the reply of LLMClient.ask
translate_lines_as_html(ls, reply) ==
    IF reply = None THEN <<>>
    ELSE LET res == reply[1]
         IN  IF PyCount(res, <<"<", "/", "L">>) # Len(ls) \/ PyCount(res, <<"<", "L">>) # Len(ls)
             THEN <<>>
             ELSE html_collect(res, Len(ls), 1, <<>>)

\* translate_text, given the reply of LLMClient.ask
translate_text(reply) == IF reply = None THEN <<>> ELSE reply[1]

RECURSIVE SumLen(_)
SumLen(ls) == IF ls = <<>> THEN 0 ELSE len_hybrid(ls[1]) + SumLen(Tail(ls))

\* int(tar_len_func(full_res) * r) for r = src_len / total_len.  The source
\* computes in floats; for operands below 22 the truncated float product
\* equals the exact quotient
SplitLength(tar_len, src_len, total_len) == (tar_len * src_len) \div total_len

\* lines 129-130, without the last element
split_lengths(ls, full_res, total_len) ==
    [k \in 1 .. (Len(ls) - 1) |-> SplitLength(len_hybrid(full_res), len_hybrid(ls[k]), total_len)]

\* lines 132-135: the loop over split_lengths from element k on
RECURSIVE fallback_loop(_, _, _, _)
fallback_loop(full_res, lengths, k, res) ==
    IF k > Len(lengths) THEN Return(Append(res, PyStrip(full_res)))
    ELSE LET head == sub_hybrid(full_res, 0, Some(lengths[k]))
             rest == sub_hybrid(full_res, lengths[k], None)
         IN  IF head.exc # "none" THEN Raise(head.exc)
             ELSE IF rest.exc # "none" THEN Raise(rest.exc)
             ELSE fallback_loop(rest.val, lengths, k + 1, Append(res, PyStrip(head.val)))

\* lines 124-136: the proportional split, given the reply to translate_text
translate_lines_fallback(ls, reply) ==
    LET full_res == PyRemoveSuffix(PyRemoveSuffix(translate_text(reply), <<".", ".", ".">>),
                                   <<"hellip", "hellip">>)
        total_len == SumLen(ls)
    IN  IF total_len = 0 THEN Raise("ZeroDivisionError")
        ELSE fallback_loop(full_res, split_lengths(ls, full_res, total_len), 1, <<>>)

----------------------------------------------------------------------------
(* The LLM behind LLMClient.ask: what it may reply. *)

\* a stand-in translation of a text, character by character
TrChar(c) == IF c = "a" THEN "zh" ELSE c
Tr(str) == [k \in 1 .. Len(str) |-> TrChar(str[k])]

DeleteAt(str, k) == SubSeq(str, 1, k - 1) \o SubSeq(str, k + 1, Len(str))
ReplaceAt(str, k, c) == [str EXCEPT ![k] = c]

\* replies to the tag-protocol request: none, empty, the well-formed reply,
\* the prompt echoed, the well-formed reply with one character lost or with
\* one tag number changed, and a reply without tags
HtmlReplies(ls) ==
    LET good == HtmlSrc([i \in 1 .. Len(ls) |-> Tr(ls[i])])
    IN  {None, SomeStr(<<>>), SomeStr(good), SomeStr(HtmlSrc(ls)),
         SomeStr(Tr(PyJoin(<<" ">>, ls)))}
        \cup {SomeStr(DeleteAt(good, k)) : k \in 1 .. Len(good)}
        \cup {SomeStr(ReplaceAt(good, k, Str(d)[1])) :
                k \in {j \in 1 .. Len(good) : category(good[j]) = "Nd"},
                d \in 1 .. (Len(ls) + 1)}

\* replies to the plain translation request
ReplyChars == {"a", " ", "zh"}
TextReplies(ls) ==
    LET good == Tr(PyJoin(<<" ">>, ls))
    IN  {None, SomeStr(good), SomeStr(good \o <<".", ".", ".">>),
         SomeStr(good \o <<"hellip", "hellip">>)}
        \cup {SomeStr(x) : x \in StringsUpTo(ReplyChars, MaxReply)}

\* the texts a line may hold
LineTexts == {<<"a">>, <<"a", " ", "a">>, <<"zh">>, <<",">>}
RECURSIVE ListsUpTo(_, _)
ListsUpTo(S, n) ==
    IF n = 0 THEN {<<>>}
    ELSE LET shorter == ListsUpTo(S, n - 1)
         IN  shorter \cup {Append(l, x) : l \in {u \in shorter : Len(u) = n - 1}, x \in S}

LinesInit ==
    /\ lines \in ListsUpTo(LineTexts, MaxLines) \ {<<>>}
    /\ try_html \in 0 .. MaxTry
    /\ attempt = 0
    /\ tlPc = "run"
    /\ result = NoCall
    /\ requests = <<>>
    /\ parsed = <<>>
    /\ TextUnused /\ SrtUnused /\ TrUnused /\ AskUnused /\ RestUnused

\* one iteration of "for _ in range(try_html)" (lines 119-122): a
\* tag-protocol request, its reply, and the return if the reply parses
TryHtml ==
    /\ tlPc = "run"
    /\ attempt < try_html
    /\ \E reply \in HtmlReplies(lines) :
        LET res == translate_lines_as_html(lines, reply)
        IN  /\ requests' = Append(requests, "html")
            /\ parsed' = Append(parsed, Len(res))
            /\ attempt' = attempt + 1
            /\ IF Len(res) = Len(lines)
               THEN tlPc' = "done" /\ result' = Return(res)
               ELSE UNCHANGED <<tlPc, result>>
    /\ UNCHANGED <<lines, try_html>>
    /\ UNCHANGED <<textVars, srtVars, trVars, askVars, restVars>>

\* the plain translation request sent before the tag attempts are used up
FallbackEarly ==
    /\ tlPc = "run"
    /\ attempt <= try_html
    /\ \E reply \in TextReplies(lines) :
        /\ requests' = Append(requests, "text")
        /\ result' = translate_lines_fallback(lines, reply)
        /\ tlPc' = "done"
    /\ UNCHANGED <<lines, try_html, attempt, parsed>>
    /\ UNCHANGED <<textVars, srtVars, trVars, askVars, restVars>>

\* lines 123-136: the plain translation request and the proportional split
Fallback ==
    /\ tlPc = "run"
    /\ attempt = try_html
    /\ \E reply \in TextReplies(lines) :
        /\ requests' = Append(requests, "text")
        /\ result' = translate_lines_fallback(lines, reply)
        /\ tlPc' = "done"
    /\ UNCHANGED <<lines, try_html, attempt, parsed>>
    /\ UNCHANGED <<textVars, srtVars, trVars, askVars, restVars>>

LinesNext == TryHtml \/ Fallback

LinesSpec == LinesInit /\ [][LinesNext]_vars

----------------------------------------------------------------------------
(* Claims about translate_lines, checked under LinesSpec. *)

\* C1: for every non-empty list of lines, every try_html >= 0 and every
\* sequence of replies, translate_lines returns a list of exactly
\* len(lines) elements, from the tag protocol or from the fallback.
TranslateLinesKeepsCount ==
    tlPc = "done" => (result.exc = "none" /\ Len(result.val) = Len(lines))

\* C2: the proportional-split fallback cannot fail. For every non-empty
\* batch of non-empty lines and every reply to the plain translation
\* request, it completes without raising and yields its N pieces.
FallbackNeverFails ==
    (tlPc = "done" /\ requests # <<>> /\ requests[Len(requests)] = "text") =>
        (result.exc = "none" /\ Len(result.val) = Len(lines))

----------------------------------------------------------------------------
(* srt.py: SRT.sections, SRT.with_texts, SRT.from_sections, SRT.texts.     *)

\* the generator of SRT.sections: "start" and the loop index i as in the
\* source (0-based)
RECURSIVE sections_from(_, _, _, _)
sections_from(es, max_interval, st, i) ==
    IF i >= Len(es) THEN <<PySliceFrom(es, st)>>
    ELSE IF es[i + 1].start - es[i].end > max_interval
        THEN <<PySlice(es, st, i)>> \o sections_from(es, max_interval, i, i + 1)
    ELSE sections_from(es, max_interval, st, i + 1)
sections(es, max_interval) == sections_from(es, max_interval, 0, 1)

texts(es) == [k \in 1 .. Len(es) |-> es[k].text]

\* with_texts numbering the entries it builds from 1
with_texts_renumbered(es, txts) ==
    [k \in 1 .. Min(Len(es), Len(txts)) |->
        SRTEntry(k, es[k].start, es[k].end, txts[k])]

\* zip(self, texts) stops at the shorter of the two
with_texts(es, txts) ==
    [k \in 1 .. Min(Len(es), Len(txts)) |->
        SRTEntry(es[k].index, es[k].start, es[k].end, txts[k])]

RECURSIVE from_sections(_)
from_sections(ss) ==
    IF ss = <<>> THEN <<>>
    ELSE [k \in 1 .. Len(ss[1]) |->
             SRTEntry(ss[1][k].index, ss[1][k].start, ss[1][k].end, ss[1][k].text)]
         \o from_sections(Tail(ss))

----------------------------------------------------------------------------
(* translate.py: translate_srt and _translate_srt_section on the event     *)
(* loop.  A batch is named <<k, i>>: section k, offset i in the section.   *)

\* section_interval's default, in seconds
SectionInterval == 10

\* a batch starting at every line
BatchOffsetsEveryLine(n, size) == 0 .. (n - 1)
\* range(0, len(srt), batch_size)
BatchOffsets(n, size) == {i \in 0 .. (n - 1) : i % size = 0}

BatchesOf(k) == {<<k, i>> : i \in BatchOffsets(Len(secs[k]), batch_size)}
Batches == UNION {BatchesOf(k) : k \in 1 .. Len(secs)}

\* lines[i : i + batch_size]
BatchLines(b) == PySlice(texts(secs[b[1]]), b[2], b[2] + batch_size)

\* the slice assignment with the batch's offset dropped: list[0 : hi - lo] = vals
PySliceAssignAtFront(list, lo, hi, vals) ==
    vals \o PySliceFrom(list, Max(0, hi - lo))

\* list[lo:hi] = vals
PySliceAssign(list, lo, hi, vals) ==
    PySlice(list, 0, lo) \o vals \o PySliceFrom(list, Max(lo, hi))

\* what asyncio.gather hands back for section k: the (context, result)
\* pairs of task_with_context in the order the batches were passed in
GatherResults(k) ==
    LET n == Cardinality(BatchesOf(k))
    IN  [j \in 1 .. n |-> <<(j - 1) * batch_size, task[<<k, (j - 1) * batch_size>>].res.val>>]

\* lines 157-159: "for i, texts in res: translated[i : i + batch_size] = texts"
RECURSIVE write_back(_, _, _)
write_back(list, res, j) ==
    IF j > Len(res) THEN list
    ELSE write_back(PySliceAssign(list, res[j][1], res[j][1] + batch_size, res[j][2]), res, j + 1)

\* lines 157-160
section_result(k) ==
    with_texts(secs[k], write_back([j \in 1 .. Len(secs[k]) |-> <<>>], GatherResults(k), 1))

\* the replies of the LLM this part considers: none, or the well-formed one
SrtHtmlReplies(ls) == {None, SomeStr(HtmlSrc([i \in 1 .. Len(ls) |-> Tr(ls[i])]))}
SrtTextReplies(ls) == {None, SomeStr(Tr(PyJoin(<<" ">>, ls)))}

\* entry k holds k words, or (for at most one entry) only a separator
RECURSIVE Words(_)
Words(k) == IF k <= 1 THEN <<"a">> ELSE Words(k - 1) \o <<" ", "a">>
RECURSIVE MakeTimeline(_, _, _)
MakeTimeline(n, gaps, sepAt) ==
    IF n = 0 THEN <<>>
    ELSE LET before == MakeTimeline(n - 1, gaps, sepAt)
             st == IF n = 1 THEN 0 ELSE before[n - 1].end + gaps[n - 1] * TimeDen
         IN  Append(before, SRTEntry(n, st, st + TimeDen,
                                     IF sepAt = n THEN <<",">> ELSE Words(n)))
TrTimelines ==
    UNION {{MakeTimeline(n, gaps, sepAt) :
                gaps \in [1 .. (n - 1) -> {SectionInterval, SectionInterval + 1}],
                sepAt \in 0 .. n} : n \in 1 .. MaxEntries}

NewTask == [pc |-> "created", attempt |-> 0, res |-> NoCall]

TrInit ==
    /\ srt \in TrTimelines
    /\ secs = sections(srt, SectionInterval * TimeDen)
    /\ batch_size \in {1, 2}
    /\ try_html \in {0, 1}
    /\ max_concurrent \in {1, 2}
    /\ sem = max_concurrent
    /\ secPc = [k \in 1 .. Len(secs) |-> "waiting"]
    /\ task = [b \in Batches |-> NewTask]
    /\ secOut = [k \in 1 .. Len(secs) |-> <<>>]
    /\ translated = NoCall
    /\ overtaken = FALSE
    /\ lines = <<>> /\ attempt = 0 /\ tlPc = "unused"
    /\ result = NoCall /\ requests = <<>> /\ parsed = <<>>
    /\ TextUnused /\ SrtUnused /\ AskUnused /\ RestUnused

TrFrame ==
    UNCHANGED <<textVars, srtVars, linesVars, askVars, restVars,
                srt, secs, batch_size, max_concurrent>>

\* batch c comes before batch b in the timeline
Earlier(c, b) == c[1] < b[1] \/ (c[1] = b[1] /\ c[2] < b[2])
Unfinished(b) == task[b].pc \in {"pending", "running"}
Overtakes(b) == \E c \in Batches : Earlier(c, b) /\ Unfinished(c)

\* _task_with_semaphore acquires the semaphore for section k;
\* _translate_srt_section builds one task per batch and awaits the gather
SectionEnter(k) ==
    /\ secPc[k] = "waiting"
    /\ sem > 0
    /\ sem' = sem - 1
    /\ secPc' = [secPc EXCEPT ![k] = "gathering"]
    /\ task' = [b \in Batches |-> IF b \in BatchesOf(k) THEN [task[b] EXCEPT !.pc = "pending"]
                                   ELSE task[b]]
    /\ UNCHANGED <<secOut, translated, overtaken>>
    /\ TrFrame

\* the loop runs the task of batch b for the first time: translate_lines starts
BatchStart(b) ==
    /\ task[b].pc = "pending"
    /\ task' = [task EXCEPT ![b].pc = "running"]
    /\ UNCHANGED <<sem, secPc, secOut, translated, overtaken>>
    /\ TrFrame

\* one tag-protocol attempt of batch b (translate_lines, lines 119-122)
BatchTryHtml(b) ==
    /\ task[b].pc = "running"
    /\ task[b].attempt < try_html
    /\ \E reply \in SrtHtmlReplies(BatchLines(b)) :
        LET res == translate_lines_as_html(BatchLines(b), reply)
        IN  IF Len(res) = Len(BatchLines(b))
            THEN /\ task' = [task EXCEPT ![b] = [pc |-> "done", attempt |-> @.attempt + 1,
                                                 res |-> Return(res)]]
                 /\ overtaken' = (overtaken \/ Overtakes(b))
            ELSE /\ task' = [task EXCEPT ![b].attempt = @ + 1]
                 /\ UNCHANGED overtaken
    /\ UNCHANGED <<sem, secPc, secOut, translated>>
    /\ TrFrame

\* the fallback of batch b (translate_lines, lines 123-136)
BatchFallback(b) ==
    /\ task[b].pc = "running"
    /\ task[b].attempt = try_html
    /\ \E reply \in SrtTextReplies(BatchLines(b)) :
        LET res == translate_lines_fallback(BatchLines(b), reply)
        IN  task' = [task EXCEPT ![b].pc = IF res.exc = "none" THEN "done" ELSE "raised",
                                 ![b].res = res]
    /\ overtaken' = (overtaken \/ Overtakes(b))
    /\ UNCHANGED <<sem, secPc, secOut, translated>>
    /\ TrFrame

\* every batch of section k has returned: the gather returns, the section
\* writes the texts back, returns its SRT and releases the semaphore
SectionReturn(k) ==
    /\ secPc[k] = "gathering"
    /\ \A b \in BatchesOf(k) : task[b].pc = "done"
    /\ secOut' = [secOut EXCEPT ![k] = section_result(k)]
    /\ secPc' = [secPc EXCEPT ![k] = "done"]
    /\ sem' = sem + 1
    /\ UNCHANGED <<task, translated, overtaken>>
    /\ TrFrame

\* a batch of section k has raised: the gather raises at once, the section
\* raises and releases the semaphore; its other batches keep running
SectionRaise(k) ==
    /\ secPc[k] = "gathering"
    /\ \E b \in BatchesOf(k) : task[b].pc = "raised"
    /\ secPc' = [secPc EXCEPT ![k] = "raised"]
    /\ sem' = sem + 1
    /\ UNCHANGED <<task, secOut, translated, overtaken>>
    /\ TrFrame

\* every section has returned: translate_srt returns SRT.from_sections
TranslateSrtReturn ==
    /\ translated = NoCall
    /\ \A k \in 1 .. Len(secs) : secPc[k] = "done"
    /\ translated' = Return(from_sections(secOut))
    /\ UNCHANGED <<sem, secPc, task, secOut, overtaken>>
    /\ TrFrame

\* a section has raised: run_tasks' gather raises and so does translate_srt
TranslateSrtRaise ==
    /\ translated = NoCall
    /\ \E k \in 1 .. Len(secs) : secPc[k] = "raised"
    /\ translated' = Raise(LET k == CHOOSE j \in 1 .. Len(secs) : secPc[j] = "raised"
                               b == CHOOSE c \in BatchesOf(k) : task[c].pc = "raised"
                           IN  task[b].res.exc)
    /\ UNCHANGED <<sem, secPc, task, secOut, overtaken>>
    /\ TrFrame

TrNext ==
    \/ \E k \in 1 .. Len(secs) : SectionEnter(k)
    \/ \E b \in Batches : BatchStart(b)
    \/ \E b \in Batches : BatchTryHtml(b)
    \/ \E b \in Batches : BatchFallback(b)
    \/ \E k \in 1 .. Len(secs) : SectionReturn(k)
    \/ \E k \in 1 .. Len(secs) : SectionRaise(k)
    \/ TranslateSrtReturn
    \/ TranslateSrtRaise

TrSpec == TrInit /\ [][TrNext]_vars

-----------------------------------------------------------------------------
(* Claims about translate_srt, checked under TrSpec. *)

\* the position in the whole timeline before the first entry of section k
RECURSIVE SectionBase(_)
SectionBase(k) == IF k <= 1 THEN 0 ELSE SectionBase(k - 1) + Len(secs[k - 1])

\* C3: the timeline translate_srt returns has as many entries as its input,
\* in the same order, and each entry's index, start and end equal those of
\* the input entry at the same position; only the text may differ.
TranslateSrtKeepsTimeline ==
    translated.exc = "none" =>
        /\ Len(translated.val) = Len(srt)
        /\ \A p \in 1 .. Len(srt) :
            /\ translated.val[p].index = srt[p].index
            /\ translated.val[p].start = srt[p].start
            /\ translated.val[p].end = srt[p].end

\* translate_srt has returned a timeline of two sections or more in which a
\* text was translated
TranslateSrtReturnedSections ==
    /\ translated.exc = "none"
    /\ Len(secs) >= 2
    /\ \E p \in 1 .. Len(srt) : translated.val[p].text # srt[p].text

\* C4: the output of translate_srt does not depend on the order in which
\* the batches complete. In every interleaving, the texts returned for the
\* batch at offset i of a section are at positions i .. i+len-1 of that
\* section's output, and the sections are in input order.
BatchTextsAtOwnOffsets ==
    /\ \A k \in 1 .. Len(secs) : secPc[k] = "done" =>
        /\ Len(secOut[k]) = Len(secs[k])
        /\ \A b \in BatchesOf(k) : \A j \in 1 .. Len(task[b].res.val) :
            secOut[k][b[2] + j].text = task[b].res.val[j]
    /\ translated.exc = "none" =>
        \A b \in Batches : \A j \in 1 .. Len(task[b].res.val) :
            /\ translated.val[SectionBase(b[1]) + b[2] + j].text = task[b].res.val[j]
            /\ translated.val[SectionBase(b[1]) + b[2] + j].index
                   = secs[b[1]][b[2] + j].index

\* translate_srt has returned after a batch completed while a batch before
\* it (an earlier section, or an earlier offset of its section) was still
\* unfinished, and some section had two batches or more
ReturnedAfterOutOfOrderCompletion ==
    /\ translated.exc = "none"
    /\ overtaken
    /\ \E k \in 1 .. Len(secs) : Cardinality(BatchesOf(k)) >= 2

\* the translate_lines calls that have started and not yet finished
InFlight == {b \in Batches : task[b].pc = "running"}

\* C5: during translate_srt at most max_concurrent batches are in flight at
\* any moment: the number of translate_lines calls that have started and
\* not yet finished never exceeds max_concurrent.
AtMostMaxConcurrentInFlight == Cardinality(InFlight) <= max_concurrent

-----------------------------------------------------------------------------
(* llm.py: LLMClient.ask.  Each caller is one coroutine on the event loop.  *)

Callers == 1 .. MaxCallers

\* lines 47-49: the messages of the request.  "if user_prompt" is false for
\* None and for the empty str
messages(c) ==
    IF user_prompt[c] # None /\ user_prompt[c][1] # <<>>
    THEN <<[role |-> "system"], [role |-> "user", content |-> user_prompt[c][1]]>>
    ELSE <<[role |-> "system"]>>

\* what chat.choices[0].message.content may be: a str or None
Contents == {None, SomeStr(<<"zh">>)}

\* the outcome of one create() call
Raised == [raised |-> TRUE, content |-> None]
Completion(content) == [raised |-> FALSE, content |-> content]

\* a wait that grows by one second per failure
count_plus_one(n) == n + 1

\* line 64: count *= 2
count_doubled(n) == n * 2

AskInit ==
    /\ user_prompt \in [Callers -> {SomeStr(<<>>), SomeStr(<<"a">>)}]
    /\ clientSem \in {1, MaxCallers}
    /\ askPc = [c \in Callers |-> "called"]
    /\ count = [c \in Callers |-> 0]
    /\ sent = [c \in Callers |-> <<>>]
    /\ got = [c \in Callers |-> <<>>]
    /\ slept = [c \in Callers |-> <<>>]
    /\ askRet = [c \in Callers |-> NoCall]
    /\ TextUnused /\ SrtUnused /\ LinesUnused /\ TrUnused /\ RestUnused

AskFrame == UNCHANGED <<textVars, srtVars, linesVars, trVars, restVars, user_prompt>>

\* line 50, "async with self.sem": the coroutine acquires the semaphore
AcquireSem(c) ==
    /\ askPc[c] = "called"
    /\ clientSem > 0
    /\ clientSem' = clientSem - 1
    /\ askPc' = [askPc EXCEPT ![c] = "limiter"]
    /\ UNCHANGED <<count, sent, got, slept, askRet>>
    /\ AskFrame

\* line 50, "self.limiter", and line 51: the rate limiter admits the
\* coroutine, which sets count = 1 and enters the loop
AcquireLimiter(c) ==
    /\ askPc[c] = "limiter"
    /\ askPc' = [askPc EXCEPT ![c] = "create"]
    /\ count' = [count EXCEPT ![c] = 1]
    /\ UNCHANGED <<clientSem, sent, got, slept, askRet>>
    /\ AskFrame

\* lines 54-64: the create() call raises; the handler sleeps count seconds
\* (time.sleep: the coroutine does not yield meanwhile), doubles count and
\* the loop goes round
CreateRaises(c) ==
    /\ askPc[c] = "create"
    /\ Len(slept[c]) < MaxFail
    /\ sent' = [sent EXCEPT ![c] = Append(@, messages(c))]
    /\ got' = [got EXCEPT ![c] = Append(@, Raised)]
    /\ slept' = [slept EXCEPT ![c] = Append(@, count[c])]
    /\ count' = [count EXCEPT ![c] = count_doubled(@)]
    /\ UNCHANGED <<clientSem, askPc, askRet>>
    /\ AskFrame

\* lines 54-59 and 65-72: the create() call returns a completion; the loop
\* breaks, the semaphore is released and ask returns the content
CreateReturns(c) ==
    /\ askPc[c] = "create"
    /\ \E content \in Contents :
        /\ got' = [got EXCEPT ![c] = Append(@, Completion(content))]
        /\ askRet' = [askRet EXCEPT ![c] = Return(content)]
    /\ sent' = [sent EXCEPT ![c] = Append(@, messages(c))]
    /\ clientSem' = clientSem + 1
    /\ askPc' = [askPc EXCEPT ![c] = "done"]
    /\ UNCHANGED <<count, slept>>
    /\ AskFrame

AskNext ==
    \/ \E c \in Callers : AcquireSem(c)
    \/ \E c \in Callers : AcquireLimiter(c)
    \/ \E c \in Callers : CreateRaises(c)
    \/ \E c \in Callers : CreateReturns(c)

\* the event loop runs every coroutine that can go on, the rate limiter
\* admits every waiter in the end, and the backend succeeds in the end
AskFairness ==
    \A c \in Callers :
        /\ WF_vars(AcquireSem(c))
        /\ WF_vars(AcquireLimiter(c))
        /\ SF_vars(CreateReturns(c))

AskSpec == AskInit /\ [][AskNext]_vars /\ AskFairness

-----------------------------------------------------------------------------
(* Claims about LLMClient.ask, checked under AskSpec. *)

RECURSIVE Pow2(_)
Pow2(k) == IF k <= 0 THEN 1 ELSE 2 * Pow2(k - 1)

\* the attempts of caller c that failed
Failures(c) == {k \in 1 .. Len(got[c]) : got[c][k].raised}

\* what holds of every caller at every moment: one wait per failure, the
\* k-th of 2^(k-1) seconds; every attempt sends the same messages; ask never
\* raises; it returns exactly at the first attempt that succeeds, with that
\* attempt's content
AskBacksOff ==
    \A c \in Callers :
        /\ Len(slept[c]) = Cardinality(Failures(c))
        /\ \A k \in 1 .. Len(slept[c]) : slept[c][k] = Pow2(k - 1)
        /\ Len(sent[c]) = Len(got[c])
        /\ \A k \in 1 .. Len(sent[c]) : sent[c][k] = messages(c)
        /\ askRet[c].exc \in {"nocall", "none"}
        /\ askRet[c].exc = "nocall" => Failures(c) = 1 .. Len(got[c])
        /\ askRet[c].exc = "none" =>
            /\ Failures(c) = 1 .. (Len(got[c]) - 1)
            /\ askRet[c].val = got[c][Len(got[c])].content

\* C6: ask never returns or raises because of a transport failure. After
\* the k-th consecutive failed attempt it waits 2^(k-1) seconds and sends
\* the same request again, however many attempts that takes; it returns the
\* content of the first attempt that succeeds; and if the backend succeeds
\* in the end, ask returns in the end.
AskRetriesUntilSuccess ==
    /\ [](AskBacksOff)
    /\ \A c \in Callers : <>(askRet[c].exc = "none")

\* a caller has returned the content of its fourth attempt, after waits of
\* 1, 2 and 4 seconds
AskReturnedAfterThreeFailures ==
    \E c \in Callers :
        /\ askRet[c].exc = "none"
        /\ slept[c] = <<1, 2, 4>>
        /\ Len(got[c]) = 4

-----------------------------------------------------------------------------
(* Further claims about the reflow operations, checked under SrtSpec. *)

\* C11: split-by-length content conservation. For every timeline and every
\* max_length, min_tail_length and separator (a space or the empty string),
\* the sum of len_hybrid over the texts split_by_length produces equals the
\* sum of len_hybrid over the input texts.
SplitConservesContent ==
    (srtOp = "split_by_length" /\ out.exc = "none") =>
        SumLen(texts(out.val)) = SumLen(texts(entries))

\* C12: tail-merge guarantee. No piece split_by_length produces from an
\* entry that was split has hybrid length < min_tail_length; a final
\* remainder shorter than min_tail_length is appended to the previously
\* emitted piece of the same entry, whose end becomes the entry's end,
\* instead of becoming an entry of its own.  So the call returns, the pieces
\* of a split entry are all of hybrid length >= min_tail_length, and an
\* entry that precedes the split entry and needs no split comes out as it
\* went in.
SplitMergesShortTail ==
    srtOp = "split_by_length" =>
        /\ out.exc = "none"
        /\ (Len(entries) = 1 /\ Len(entries[1].text) > max_length) =>
            \A k \in 1 .. Len(out.val) : len_hybrid(out.val[k].text) >= min_tail_length
        /\ (Len(entries) = 2 /\ Len(entries[1].text) <= max_length) =>
            (Len(out.val) >= 1 /\ out.val[1] = entries[1])

-----------------------------------------------------------------------------
(* SRT.split_with_ref.  cli.py calls it on the source-language track with  *)
(* the split translated track as reference, and tests/test_srt.py tests    *)
(* it; srt.py holds no definition of it.  It is modelled here from the     *)
(* description of the reference-aligned split, on top of sub_hybrid and    *)
(* len_hybrid as utils.py defines them.                                    *)

\* the half-second alignment tolerance, in ticks
RefTolerance == TimeDen \div 2

\* the windows of the reference that fall within the tolerance of entry e,
\* in the reference's order
RECURSIVE MatchedWindows(_, _)
MatchedWindows(e, ws) ==
    IF ws = <<>> THEN <<>>
    ELSE (IF ws[1].start >= e.start - RefTolerance /\ ws[1].end <= e.end + RefTolerance
          THEN <<ws[1]>> ELSE <<>>) \o MatchedWindows(e, Tail(ws))

\* the share of the text of e that goes to window w: the text length in
\* proportion to the window's share of the entry's duration, rounded down
WindowLength(e, w) == (Len(e.text) * (w.end - w.start)) \div (e.end - e.start)

\* the pieces of one entry: window k of ws takes a sub_hybrid prefix of what
\* is left, the leftover after the last window joins the last piece
RECURSIVE ref_pieces(_, _, _, _, _, _)
ref_pieces(e, rest, ws, k, pieces, i) ==
    IF k > Len(ws)
    THEN [exc |-> "none",
          pieces |-> IF pieces = <<>> THEN pieces
                     ELSE [pieces EXCEPT ![Len(pieces)].text = @ \o rest]]
    ELSE LET length == WindowLength(e, ws[k])
             piece == sub_hybrid(rest, 0, Some(length))
             left == sub_hybrid(rest, length, None)
         IN  IF piece.exc # "none" THEN [exc |-> piece.exc, pieces |-> pieces]
             ELSE IF left.exc # "none" THEN [exc |-> left.exc, pieces |-> pieces]
             ELSE ref_pieces(e, left.val, ws, k + 1,
                             Append(pieces, SRTEntry(i + k - 1, ws[k].start, ws[k].end, piece.val)),
                             i)

RECURSIVE split_with_ref_from(_, _, _, _)
split_with_ref_from(es, ws, k, new_entries) ==
    IF k > Len(es) THEN Return(new_entries)
    ELSE LET r == ref_pieces(es[k], es[k].text, MatchedWindows(es[k], ws), 1, <<>>,
                             Len(new_entries) + 1)
         IN  IF r.exc # "none" THEN Raise(r.exc)
             ELSE split_with_ref_from(es, ws, k + 1, new_entries \o r.pieces)

split_with_ref(es, ws) == split_with_ref_from(es, ws, 1, <<>>)

\* the span of entry e as one window, or cut in two at its middle
WindowsOf(e) ==
    LET mid == e.start + (e.end - e.start) \div 2
    IN  {<<SRTEntry(0, e.start, e.end, <<>>)>>,
         <<SRTEntry(0, e.start, mid, <<>>), SRTEntry(0, mid, e.end, <<>>)>>}

\* reference timelines whose windows partition the span of every entry
RECURSIVE References(_)
References(es) ==
    IF es = <<>> THEN {<<>>}
    ELSE {ws \o rest : ws \in WindowsOf(es[1]), rest \in References(Tail(es))}

Renumbered(ws) == [k \in 1 .. Len(ws) |-> [ws[k] EXCEPT !.index = k]]

\* the windows matched to e are exactly the windows that partition its span
MatchedPartition(e, ws) ==
    LET m == MatchedWindows(e, ws)
    IN  /\ m # <<>>
        /\ m[1].start = e.start
        /\ m[Len(m)].end = e.end
        /\ \A k \in 1 .. (Len(m) - 1) : m[k].end = m[k + 1].start

RefInit ==
    /\ entries \in Timelines
    /\ ref \in {Renumbered(ws) : ws \in References(entries)}
    /\ \A k \in 1 .. Len(entries) : MatchedPartition(entries[k], ref)
    /\ max_length = 0 /\ min_tail_length = 0 /\ sep = <<>>
    /\ modify_start = FALSE /\ interval = 0 /\ min_length = 0
    /\ self_after = <<>>
    /\ srtOp = "none"
    /\ out = NoCall
    /\ TextUnused /\ LinesUnused /\ TrUnused /\ AskUnused /\ RestUnused

\* SRT(entries).split_with_ref(SRT(ref))
CallSplitWithRef ==
    /\ srtOp = "none"
    /\ srtOp' = "split_with_ref"
    /\ out' = split_with_ref(entries, ref)
    /\ self_after' = entries
    /\ UNCHANGED <<entries, max_length, min_tail_length, sep, ref, modify_start,
                   interval, min_length>>
    /\ UNCHANGED <<textVars, linesVars, trVars, askVars, restVars>>

RefNext == CallSplitWithRef

RefSpec == RefInit /\ [][RefNext]_vars

-----------------------------------------------------------------------------
(* srt.py: SRT.correct_time, SRT.merge_sentences, SRT.merge_by_length.     *)

\* the loop of correct_time from i on (i is 0-based as in the source); es is
\* self.entries, changed in place
RECURSIVE correct_time_from(_, _, _)
correct_time_from(es, i, modify) ==
    IF i >= Len(es) THEN es
    ELSE IF es[i].end > es[i + 1].start
        THEN IF modify
             THEN correct_time_from([es EXCEPT ![i + 1].start = es[i].end], i + 1, modify)
             ELSE correct_time_from([es EXCEPT ![i].end = es[i + 1].start], i + 1, modify)
    ELSE correct_time_from(es, i + 1, modify)

\* correct_time with the loop started at range(2, ...): the first pair is
\* never looked at
correct_time_skipping(es, modify) ==
    IF Len(es) <= 2 THEN es ELSE correct_time_from(es, 2, modify)

correct_time(es, modify) == correct_time_from(es, 1, modify)

\* the default of puncs, as far as the texts of the model go
puncs == {".", "!", "?"}

\* last_entry.end = entry.end; last_entry.text += sep + entry.text
Absorb(acc, entry, sep_) ==
    [acc EXCEPT ![Len(acc)] = [@ EXCEPT !.end = entry.end, !.text = @ \o sep_ \o entry.text]]

\* sentences.append(SRTEntry(last_entry.index + 1, ...))
AppendNext(acc, entry) ==
    Append(acc, SRTEntry(acc[Len(acc)].index + 1, entry.start, entry.end, entry.text))

\* the loop of merge_sentences over self[1:], from entry k on; sentences
\* holds entries built by the loop, never entries of self
RECURSIVE merge_sentences_from(_, _, _, _, _)
merge_sentences_from(es, k, sentences, itv, min_len) ==
    IF k > Len(es) THEN Return(sentences)
    ELSE LET last_entry == sentences[Len(sentences)]
             entry == es[k]
         IN  IF last_entry.text = <<>> THEN Raise("IndexError")
             ELSE IF \/ (/\ last_entry.text[Len(last_entry.text)] \notin puncs
                         /\ entry.start - last_entry.end < itv)
                     \/ len_hybrid(entry.text) < min_len
                 THEN merge_sentences_from(es, k + 1, Absorb(sentences, entry, <<" ">>),
                                           itv, min_len)
             ELSE merge_sentences_from(es, k + 1, AppendNext(sentences, entry), itv, min_len)

\* merge_sentences with sentences = [self[0]]: the first sentence is the
\* input's own first entry, which the loop then renumbers and extends
merge_sentences_aliasing(es, itv, min_len) ==
    IF es = <<>> THEN [result |-> Raise("IndexError"), self |-> es]
    ELSE LET r == merge_sentences_from(es, 2,
                        <<SRTEntry(1, es[1].start, es[1].end, es[1].text)>>, itv, min_len)
         IN  [result |-> r,
              self |-> IF r.exc = "none" THEN [es EXCEPT ![1] = r.val[1]] ELSE es]
\* the result of merge_sentences and self.entries after the call
merge_sentences(es, itv, min_len) ==
    IF es = <<>> THEN [result |-> Raise("IndexError"), self |-> es]
    ELSE [result |-> merge_sentences_from(es, 2,
                        <<SRTEntry(1, es[1].start, es[1].end, es[1].text)>>, itv, min_len),
          self |-> es]

\* the loop of merge_by_length over self[1:], from entry k on
RECURSIVE merge_by_length_from(_, _, _, _, _, _)
merge_by_length_from(es, k, new_entries, itv, max_len, sep_) ==
    IF k > Len(es) THEN Return(new_entries)
    ELSE LET last_entry == new_entries[Len(new_entries)]
             entry == es[k]
         IN  IF /\ entry.start - last_entry.end < itv
                /\ Len(entry.text) + Len(last_entry.text) < max_len
             THEN merge_by_length_from(es, k + 1, Absorb(new_entries, entry, sep_),
                                       itv, max_len, sep_)
             ELSE merge_by_length_from(es, k + 1, AppendNext(new_entries, entry),
                                       itv, max_len, sep_)

merge_by_length(es, itv, max_len, sep_) ==
    IF es = <<>> THEN Raise("IndexError")
    ELSE merge_by_length_from(es, 2, <<SRTEntry(1, es[1].start, es[1].end, es[1].text)>>,
                              itv, max_len, sep_)

\* half a second, in ticks
HalfSecond == TimeDen \div 2

\* the texts of the entries: empty (a cue without text, as from_file may
\* build), a word, a word that ends a sentence, two ideographs
FlowTexts == {<<>>, <<"a">>, <<"a", ".">>, <<"zh", "zh">>}

\* an entry starts at a half second up to MaxStart and lasts one or two
FlowEntries ==
    {SRTEntry(0, st * HalfSecond, (st + d) * HalfSecond, x) :
        st \in 0 .. MaxStart, d \in {1, 2}, x \in FlowTexts}

\* timelines of up to n entries whose starts do not decrease; entries may
\* overlap or leave gaps
RECURSIVE FlowLists(_)
FlowLists(n) ==
    IF n = 0 THEN {<<>>}
    ELSE LET shorter == FlowLists(n - 1)
             longest == {es \in shorter : Len(es) = n - 1}
         IN  shorter \cup
             {Append(p[1], p[2]) :
                 p \in {q \in longest \X FlowEntries :
                           q[1] = <<>> \/ q[1][Len(q[1])].start <= q[2].start}}

FlowTimelines == {Renumbered(es) : es \in FlowLists(MaxFlow) \ {<<>>}}

FlowInit ==
    /\ entries \in FlowTimelines
    /\ ref = <<>>
    /\ max_length = 0 /\ min_tail_length = 0 /\ sep = <<>>
    /\ modify_start = FALSE /\ interval = 0 /\ min_length = 0
    /\ self_after = <<>>
    /\ srtOp = "none"
    /\ out = NoCall
    /\ TextUnused /\ LinesUnused /\ TrUnused /\ AskUnused /\ RestUnused

FlowFrame ==
    /\ UNCHANGED <<entries, ref, min_tail_length>>
    /\ UNCHANGED <<textVars, linesVars, trVars, askVars, restVars>>

\* SRT(entries).correct_time(modify_start): changes self and returns it
CallCorrectTime ==
    /\ srtOp = "none"
    /\ srtOp' = "correct_time"
    /\ \E m \in BOOLEAN :
        /\ modify_start' = m
        /\ self_after' = correct_time(entries, m)
        /\ out' = Return(correct_time(entries, m))
    /\ UNCHANGED <<max_length, sep, interval, min_length>>
    /\ FlowFrame

\* SRT(entries).merge_sentences(interval=itv, min_length=n)
CallMergeSentences ==
    /\ srtOp = "none"
    /\ srtOp' = "merge_sentences"
    /\ \E itv \in {HalfSecond, 2 * HalfSecond}, n \in {0, 2} :
        /\ interval' = itv
        /\ min_length' = n
        /\ out' = merge_sentences(entries, itv, n).result
        /\ self_after' = merge_sentences(entries, itv, n).self
    /\ UNCHANGED <<max_length, sep, modify_start>>
    /\ FlowFrame

\* SRT(entries).merge_by_length(interval=itv, max_length=n, sep=x)
CallMergeByLength ==
    /\ srtOp = "none"
    /\ srtOp' = "merge_by_length"
    /\ \E itv \in {HalfSecond, 2 * HalfSecond}, n \in MaxLimit .. (MaxLimit + 2),
          x \in {<<" ">>, <<>>} :
        /\ interval' = itv
        /\ max_length' = n
        /\ sep' = x
        /\ out' = merge_by_length(entries, itv, n, x)
    /\ self_after' = entries
    /\ UNCHANGED <<modify_start, min_length>>
    /\ FlowFrame

FlowNext == CallCorrectTime \/ CallMergeSentences \/ CallMergeByLength

FlowSpec == FlowInit /\ [][FlowNext]_vars

-----------------------------------------------------------------------------
(* Claims about correct_time and the merge operations, under FlowSpec. *)

\* entries k and k + 1 of the timeline overlapped before the call
Overlapped(k) == entries[k].end > entries[k + 1].start

\* C14: after correct_time, with modify_start False or True, no two
\* adjacent entries overlap: previous.end <= next.start for every adjacent
\* pair. In the default mode only the end of an overlapping predecessor
\* changes, in modify_start mode only the start of an overlapping
\* successor, and a pair that did not overlap is left as it was.
CorrectTimeRemovesOverlap ==
    srtOp = "correct_time" =>
        /\ out = Return(self_after)
        /\ Len(self_after) = Len(entries)
        /\ \A k \in 1 .. (Len(entries) - 1) : self_after[k].end <= self_after[k + 1].start
        /\ \A k \in 1 .. Len(entries) :
            /\ self_after[k].index = entries[k].index
            /\ self_after[k].text = entries[k].text
            /\ modify_start => self_after[k].end = entries[k].end
            /\ ~modify_start => self_after[k].start = entries[k].start
        /\ \A k \in 1 .. (Len(entries) - 1) :
            /\ (~modify_start /\ Overlapped(k)) => self_after[k].end = entries[k + 1].start
            /\ (modify_start /\ Overlapped(k)) => self_after[k + 1].start = entries[k].end
            /\ ~Overlapped(k) =>
                /\ self_after[k].end = entries[k].end
                /\ self_after[k + 1].start = entries[k + 1].start
        /\ ~modify_start => self_after[Len(entries)].end = entries[Len(entries)].end
        /\ modify_start => self_after[1].start = entries[1].start

\* correct_time in modify_start mode has been applied to three entries of
\* which the second overlapped the third but the first did not overlap the
\* second
CorrectTimeMovedAStart ==
    /\ srtOp = "correct_time" /\ modify_start
    /\ Len(entries) = 3
    /\ ~Overlapped(1) /\ Overlapped(2)
    /\ self_after[3].start > entries[3].start

-----------------------------------------------------------------------------
(* tts.py: TTSProcessor._adjust_time.  Durations and timestamps are whole  *)
(* numbers of twentieths of a second.                                      *)

\* the margin 0.1 of lines 260, 276 and 286, in twentieths of a second
Margin == 2

\* SRT.fill_time(modify_start=False) on a copy: every end but the last
\* becomes the next start
fill_time(es) ==
    [k \in 1 .. Len(es) |-> IF k < Len(es) THEN [es[k] EXCEPT !.end = es[k + 1].start]
                            ELSE es[k]]

\* lending without the margin
borrow_all(deficit, available) == Min(deficit, available)

\* lines 276 and 286: min(-has_time[i], has_time[j] - 0.1)
borrow_amount(deficit, available) == Min(deficit, available - Margin)

\* line 268
initial_has_time(es, durs) ==
    [k \in 1 .. Len(durs) |-> es[k].end - es[k].start - durs[k]]

\* timelines of n lines: a line starts 4 or 6 twentieths after the one
\* before and ends there or one twentieth earlier
RECURSIVE AdjTimeline(_, _, _)
AdjTimeline(n, steps, gap) ==
    IF n = 0 THEN <<>>
    ELSE LET before == AdjTimeline(n - 1, steps, gap)
             st == IF n = 1 THEN 0 ELSE before[n - 1].start + steps[n - 1]
         IN  Append(before, SRTEntry(n, st, st + steps[n] - gap, <<"a">>))

AdjInit ==
    /\ \E n \in 1 .. MaxAdj :
        /\ adjIn \in {AdjTimeline(n, steps, gap) : steps \in [1 .. n -> {4, 6}], gap \in {0, 1}}
        /\ audios \in [1 .. n -> {1, 5, 7, 8}]
    /\ min_borrow \in {Max(m, Margin) : m \in {0, 2, 3}}
    /\ adjSrt = fill_time(adjIn)
    /\ has_time = initial_has_time(fill_time(adjIn), audios)
    /\ adjI = 0
    /\ lent = {}
    /\ borrowed = {}
    /\ segs = NoCall
    /\ TextUnused /\ SrtUnused /\ LinesUnused /\ TrUnused /\ AskUnused
    /\ MatchUnused /\ RunUnused /\ LateUnused

AdjFrame ==
    /\ UNCHANGED <<adjIn, audios, min_borrow>>
    /\ UNCHANGED <<textVars, srtVars, linesVars, trVars, askVars, matchVars, runVars, lateVars>>

\* line k starts earlier while the line before it keeps its end
BorrowFromPrevStartOnly(h, es, k, b) ==
    [h |-> [h EXCEPT ![k] = @ + b, ![k - 1] = @ - b],
     es |-> [es EXCEPT ![k].start = @ - b]]
\* line k (1-based) takes b from the line before it (lines 277-280)
BorrowFromPrev(h, es, k, b) ==
    [h |-> [h EXCEPT ![k] = @ + b, ![k - 1] = @ - b],
     es |-> [es EXCEPT ![k].start = @ - b, ![k - 1].end = @ - b]]

\* line k takes b from the line after it (lines 287-290)
BorrowFromNext(h, es, k, b) ==
    [h |-> [h EXCEPT ![k] = @ + b, ![k + 1] = @ - b],
     es |-> [es EXCEPT ![k].end = @ + b, ![k + 1].start = @ + b]]

\* a neighbour lends whenever it has any time left
can_lend_any(slack, threshold) == slack > 0
\* lines 275 and 285: has_time[neighbour] > min_borrow
can_lend(slack, threshold) == slack > threshold

\* one iteration of the loop of lines 269-290, for i = adjI
AdjustLine ==
    /\ adjI < Len(audios)
    /\ LET k == adjI + 1
           fromPrev == has_time[k] < 0 /\ k > 1 /\ can_lend(has_time[k - 1], min_borrow)
           a == IF fromPrev
                THEN BorrowFromPrev(has_time, adjSrt, k,
                                    borrow_amount(-has_time[k], has_time[k - 1]))
                ELSE [h |-> has_time, es |-> adjSrt]
           fromNext == a.h[k] < 0 /\ k + 1 <= Len(audios) /\ can_lend(a.h[k + 1], min_borrow)
           b == IF fromNext
                THEN BorrowFromNext(a.h, a.es, k, borrow_amount(-a.h[k], a.h[k + 1]))
                ELSE a
       IN  /\ has_time' = b.h
           /\ adjSrt' = b.es
           /\ lent' = lent \cup (IF fromPrev THEN {k - 1} ELSE {})
                           \cup (IF fromNext THEN {k + 1} ELSE {})
           /\ borrowed' = borrowed \cup (IF fromPrev \/ fromNext THEN {k} ELSE {})
    /\ adjI' = adjI + 1
    /\ UNCHANGED segs
    /\ AdjFrame

\* lines 292-300
AdjustReturn ==
    /\ adjI = Len(audios)
    /\ segs = NoCall
    /\ segs' = Return([k \in 1 .. Len(audios) |->
                          [start |-> adjSrt[k].start,
                           expected_dur |-> adjSrt[k].end - adjSrt[k].start,
                           actual_dur |-> audios[k]]])
    /\ UNCHANGED <<adjSrt, has_time, adjI, lent, borrowed>>
    /\ AdjFrame

AdjNext == AdjustLine \/ AdjustReturn

AdjSpec == AdjInit /\ [][AdjNext]_vars

----------------------------------------------------------------------------
(* find_best_matches (tts.py): the start index in words of every line.
   fuzz.ratio is not modelled by its value: every call's result is any of
   the Ratios, chosen anew for every line and every slice words[i:j]. The
   loops keep the first slice of the highest ratio, so two values give every
   index that any scores can give. *)

\* the values fuzz.ratio(line, combined) / 100.0 may take: no match, match
Ratios == 0 .. 1

\* line 48: max(len(line) for line in lines) * 2
search_window(ls) ==
    2 * (CHOOSE m \in {Len(ls[k]) : k \in 1 .. Len(ls)} :
            \A k \in 1 .. Len(ls) : Len(ls[k]) <= m)

\* every line is searched from the first word
word_start_idx_zero(rs) == 0
\* line 53: the search starts where the previous line was matched
word_start_idx(rs) == IF rs = <<>> THEN 0 ELSE rs[Len(rs)]

\* line 54
end_idx(rs, ls, ws) == Min(word_start_idx(rs) + search_window(ls), Len(ws))

\* the slices words[i:j] the loops of lines 56-57 visit
Candidates(rs, ls, ws) ==
    {p \in (0 .. Len(ws)) \X (0 .. Len(ws)) :
        /\ word_start_idx(rs) <= p[1] /\ p[1] < p[2] /\ p[2] < end_idx(rs, ls, ws)}

\* lines 56-62 from the slice words[i:j] on: the final best_start_idx
RECURSIVE scan(_, _, _, _, _, _)
scan(i, j, stop_, ratio, best_start_idx, best_match_ratio) ==
    IF i >= stop_ THEN best_start_idx
    ELSE IF j >= stop_ THEN scan(i + 1, i + 2, stop_, ratio, best_start_idx, best_match_ratio)
    ELSE IF ratio[<<i, j>>] > best_match_ratio
         THEN scan(i, j + 1, stop_, ratio, i, ratio[<<i, j>>])
         ELSE scan(i, j + 1, stop_, ratio, best_start_idx, best_match_ratio)

MatchTexts == {<<>>} \cup {[k \in 1 .. n |-> "a"] : n \in 1 .. MaxLineLen}

MatchInit ==
    /\ \E n \in 0 .. MaxMatchLines : matchLines \in [1 .. n -> MatchTexts]
    /\ \E n \in 0 .. MaxWords : words \in [1 .. n -> {<<"a">>}]
    /\ results = <<>>
    /\ matched = NoCall
    /\ TextUnused /\ SrtUnused /\ LinesUnused /\ TrUnused /\ AskUnused
    /\ AdjUnused /\ RunUnused /\ LateUnused

MatchFrame ==
    /\ UNCHANGED <<matchLines, words>>
    /\ UNCHANGED <<textVars, srtVars, linesVars, trVars, askVars, adjVars, runVars, lateVars>>

\* line 48 on an empty list: max() of an empty sequence
MatchRaises ==
    /\ matched = NoCall
    /\ matchLines = <<>>
    /\ matched' = Raise("ValueError")
    /\ UNCHANGED results
    /\ MatchFrame

\* one iteration of "for line in lines" (lines 50-64)
MatchLine ==
    /\ matched = NoCall
    /\ Len(results) < Len(matchLines)
    /\ \E ratio \in [Candidates(results, matchLines, words) -> Ratios] :
          results' = Append(results,
                            scan(word_start_idx(results), word_start_idx(results) + 1,
                                 end_idx(results, matchLines, words), ratio, 0, -1))
    /\ UNCHANGED matched
    /\ MatchFrame

\* line 65
MatchReturns ==
    /\ matched = NoCall
    /\ matchLines # <<>>
    /\ Len(results) = Len(matchLines)
    /\ matched' = Return(results)
    /\ UNCHANGED results
    /\ MatchFrame

MatchNext == MatchRaises \/ MatchLine \/ MatchReturns

MatchSpec == MatchInit /\ [][MatchNext]_vars

\* C16: line-boundary alignment is monotonic. find_best_matches returns one
\* start index per line, and for any lines, words and similarity scores the
\* index matched for line k+1 is never smaller than the index matched for
\* line k.
MatchesAreMonotonic ==
    /\ \A k \in 1 .. Len(results) - 1 : results[k] <= results[k + 1]
    /\ matched.exc = "none" =>
        /\ Len(matched.val) = Len(matchLines)
        /\ \A k \in 1 .. Len(matched.val) - 1 : matched.val[k] <= matched.val[k + 1]

\* find_best_matches has returned, a line was matched past the first word and
\* the next line further still, up to the last slice the words allow
MatchesAdvanced ==
    /\ matched.exc = "none"
    /\ Len(matched.val) = MaxMatchLines
    /\ 0 < matched.val[2]
    /\ matched.val[2] < matched.val[3]
    /\ matched.val[3] = Len(words) - 2

----------------------------------------------------------------------------
(* VideoDubbing.run (cli.py): every input file goes through ASR in the main
   thread and through translation, TTS and the adding of subtitles in a
   coroutine of the background executor. A stage either succeeds or raises
   one of the StageErrors; reading a subtitle file that is not on disk
   raises FileNotFoundError. *)

Files == 1 .. MaxFiles

StageErrors == {"RuntimeError", "FileNotFoundError", "AssertionError"}

\* "except Exception" lets nothing through
except_nothing(e) == FALSE
\* "except Exception" (lines 117 and 185): every StageError is an Exception
except_Exception(e) == e \in StageErrors

\* what a stage may do: "ok" or the exception it raises
AsrOutcomes == IF hasVideo THEN {"ok", "RuntimeError"} ELSE {"AssertionError"}
ReadOutcomes(onDisk) == IF onDisk THEN {"ok", "RuntimeError"} ELSE {"FileNotFoundError"}

Record(task_, f) == [task |-> task_, file |-> f]

RunInit ==
    /\ args \in [asr : BOOLEAN, translate : BOOLEAN, tts : BOOLEAN]
    /\ hasVideo \in BOOLEAN
    /\ subFile \in [Files -> BOOLEAN]
    /\ runPc = "loop"
    /\ runI = 0
    /\ coro = [f \in Files |-> "none"]
    /\ future = [f \in Files |-> NoCall]
    /\ failed_tasks = <<>>
    /\ startedStages = [f \in Files |-> {}]
    /\ raisedStages = [f \in Files |-> {}]
    /\ reported = FALSE
    /\ runRet = NoCall
    /\ TextUnused /\ SrtUnused /\ LinesUnused /\ TrUnused /\ AskUnused
    /\ AdjUnused /\ MatchUnused /\ LateUnused

RunFrame ==
    /\ UNCHANGED <<args, hasVideo>>
    /\ UNCHANGED <<textVars, srtVars, linesVars, trVars, askVars, adjVars, matchVars, lateVars>>

\* _process_one_file(runI) (lines 99-123), called by the loop of line 88
ProcessOneFile ==
    /\ runPc = "loop"
    /\ runI < MaxFiles
    /\ LET f == runI + 1
       IN  \E o \in AsrOutcomes :
            LET failed == args.asr /\ o # "ok"
                escaped == failed /\ ~except_Exception(o)
            IN  /\ startedStages' = [startedStages EXCEPT
                                        ![f] = IF args.asr THEN @ \cup {"asr"} ELSE @]
                /\ raisedStages' = [raisedStages EXCEPT
                                        ![f] = IF failed THEN @ \cup {"asr"} ELSE @]
                /\ subFile' = [subFile EXCEPT ![f] = IF args.asr /\ o = "ok" THEN TRUE ELSE @]
                /\ failed_tasks' = IF failed /\ ~escaped
                                   THEN Append(failed_tasks, Record("asr", f))
                                   ELSE failed_tasks
                /\ coro' = [coro EXCEPT ![f] = IF ~escaped /\ (args.translate \/ args.tts)
                                               THEN "translation" ELSE @]
                /\ runPc' = IF escaped THEN "raised" ELSE runPc
                /\ runRet' = IF escaped THEN Raise(o) ELSE runRet
    /\ runI' = runI + 1
    /\ UNCHANGED <<future, reported>>
    /\ RunFrame

\* the coroutine of file f ends: normally, or in the handler of lines 185-189
Ends(f, stage, o) ==
    /\ coro' = [coro EXCEPT ![f] = "done"]
    /\ raisedStages' = [raisedStages EXCEPT ![f] = IF o # "ok" THEN @ \cup {stage} ELSE @]
    /\ failed_tasks' = IF o # "ok" /\ except_Exception(o)
                       THEN Append(failed_tasks, Record("translate & tts", f))
                       ELSE failed_tasks
    /\ future' = [future EXCEPT ![f] = IF o # "ok" /\ ~except_Exception(o)
                                       THEN Raise(o) ELSE Return(None)]

\* the coroutine of file f goes on to the next stage
GoesOn(f, next) ==
    /\ coro' = [coro EXCEPT ![f] = next]
    /\ UNCHANGED <<raisedStages, failed_tasks, future>>

\* line 176: await self._translation(...)
Translation(f) ==
    /\ coro[f] = "translation"
    /\ IF ~args.translate
       THEN GoesOn(f, "tts") /\ UNCHANGED <<startedStages, subFile>>
       ELSE /\ startedStages' = [startedStages EXCEPT ![f] = @ \cup {"translation"}]
            /\ \E o \in ReadOutcomes(subFile[f]) :
                 IF o = "ok" THEN GoesOn(f, "tts") ELSE Ends(f, "translation", o)
            /\ UNCHANGED subFile
    /\ UNCHANGED <<runPc, runI, reported, runRet>>
    /\ RunFrame

\* lines 178-180: await self._tts(...), and the return when there is no video
Tts(f) ==
    /\ coro[f] = "tts"
    /\ IF ~args.tts
       THEN /\ IF hasVideo THEN GoesOn(f, "add_subs") ELSE Ends(f, "tts", "ok")
            /\ UNCHANGED startedStages
       ELSE /\ startedStages' = [startedStages EXCEPT ![f] = @ \cup {"tts"}]
            /\ \E o \in ReadOutcomes(args.translate \/ subFile[f]) :
                 IF o = "ok" /\ hasVideo THEN GoesOn(f, "add_subs") ELSE Ends(f, "tts", o)
    /\ UNCHANGED <<subFile, runPc, runI, reported, runRet>>
    /\ RunFrame

\* lines 182-185: await self._add_subs(...) and _cleanup_files
AddSubs(f) ==
    /\ coro[f] = "add_subs"
    /\ startedStages' = [startedStages EXCEPT ![f] = @ \cup {"add_subs"}]
    /\ \E o \in {"ok", "RuntimeError"} : Ends(f, "add_subs", o)
    /\ UNCHANGED <<subFile, runPc, runI, reported, runRet>>
    /\ RunFrame

\* lines 91-97: wait_all returns once every submitted coroutine is over
\* (executor.py 40-56), then the failures are reported
WaitAllAndReport ==
    /\ runPc = "loop"
    /\ runI = MaxFiles
    /\ \A f \in Files : coro[f] \in {"none", "done"}
    /\ IF \E f \in Files : future[f].exc \notin {"nocall", "none"}
       THEN /\ runPc' = "raised"
            /\ runRet' = Raise((CHOOSE f \in Files : future[f].exc \notin {"nocall", "none"}))
            /\ UNCHANGED reported
       ELSE /\ runPc' = "returned"
            /\ runRet' = Return(None)
            /\ reported' = (failed_tasks # <<>>)
    /\ UNCHANGED <<subFile, runI, coro, future, failed_tasks, startedStages, raisedStages>>
    /\ RunFrame

RunNext ==
    \/ ProcessOneFile
    \/ \E f \in Files : Translation(f)
    \/ \E f \in Files : Tts(f)
    \/ \E f \in Files : AddSubs(f)
    \/ WaitAllAndReport

RunSpec == RunInit /\ [][RunNext]_vars

\* the failed_tasks entries of file f
RecordsOf(f) == {k \in 1 .. Len(failed_tasks) : failed_tasks[k].file = f}

\* file f has been through everything run does with it
Processed(f) ==
    /\ runI >= f
    /\ args.asr => "asr" \in startedStages[f]
    /\ (args.translate \/ args.tts) => coro[f] = "done"

\* C17: partial-failure isolation. If any stage of one input file's pipeline
\* raises (ASR, translation, TTS or the adding of subtitles), the error is
\* recorded in failed_tasks, run does not raise, every other file's pipeline
\* is still started and runs to its own outcome, and the failures are
\* reported only after all files were processed.
PartialFailureIsolated ==
    /\ runRet.exc \in {"nocall", "none"}
    /\ \A f \in Files :
        /\ "asr" \in raisedStages[f] <=>
              \E k \in RecordsOf(f) : failed_tasks[k].task = "asr"
        /\ raisedStages[f] \ {"asr"} # {} <=>
              \E k \in RecordsOf(f) : failed_tasks[k].task = "translate & tts"
    /\ runRet.exc = "none" =>
        /\ \A f \in Files : Processed(f)
        /\ reported <=> failed_tasks # <<>>
    /\ reported => \A f \in Files : Processed(f)

\* run has returned and reported; the first file failed in its coroutine
\* and the second went through every stage without a failure
OneFileFailedOtherSucceeded ==
    /\ runRet.exc = "none"
    /\ reported
    /\ raisedStages[1] \ {"asr"} # {}
    /\ raisedStages[MaxFiles] = {}
    /\ startedStages[MaxFiles] = {"asr", "translation", "tts", "add_subs"}

\* C18: a fatal fault in a stage aborts that file's pipeline. After ASR fails
\* for a file no translation or TTS stage is started for it, after
\* translation fails no TTS or subtitle stage is started for it, and the run
\* ends with exactly one recorded outcome (success or one failure reason)
\* per file.
FatalFaultAbortsPipeline ==
    \A f \in Files :
        /\ "asr" \in raisedStages[f] =>
              startedStages[f] \cap {"translation", "tts", "add_subs"} = {}
        /\ "translation" \in raisedStages[f] =>
              startedStages[f] \cap {"tts", "add_subs"} = {}
        /\ runRet.exc = "none" =>
              Cardinality(RecordsOf(f)) = (IF raisedStages[f] = {} THEN 0 ELSE 1)

----------------------------------------------------------------------------
(* Claims about merge_sentences and merge_by_length, under FlowSpec. *)

\* the texts of entries i .. j of es joined by sep_
RECURSIVE JoinedText(_, _, _, _)
JoinedText(es, i, j, sep_) ==
    IF i = j THEN es[i].text ELSE JoinedText(es, i, j - 1, sep_) \o sep_ \o es[j].text

\* the entries o, o + 1, ... of outv are the entries i, i + 1, ... of es
\* merged group by group: numbered by position, from the start of the
\* group's first entry to the end of its last, the texts joined by sep_
RECURSIVE Covers(_, _, _, _, _)
Covers(outv, o, es, i, sep_) ==
    IF o > Len(outv) THEN i > Len(es)
    ELSE \E j \in i .. Len(es) :
            /\ outv[o].index = o
            /\ outv[o].start = es[i].start
            /\ outv[o].end = es[j].end
            /\ outv[o].text = JoinedText(es, i, j, sep_)
            /\ Covers(outv, o + 1, es, j + 1, sep_)

\* C19: merge_sentences introduces no new timestamps. Every output entry's
\* start is the start of the first input entry merged into it and its end
\* the end of the last one, the output covers all input entries in order
\* with their texts joined by a single space, it is numbered 1..N, and the
\* input timeline is left unmodified.
MergeSentencesKeepsTimestamps ==
    (srtOp = "merge_sentences" /\ out.exc = "none") =>
        /\ Covers(out.val, 1, entries, 1, <<" ">>)
        /\ self_after = entries

\* merge_sentences has returned a timeline in which the first entry is two
\* input entries merged and the second is the third input entry
MergedTwoOfThree ==
    /\ srtOp = "merge_sentences"
    /\ out.exc = "none"
    /\ Len(entries) = 3
    /\ Len(out.val) = 2
    /\ out.val[1].end = entries[2].end
    /\ out.val[1].end # entries[1].end
    /\ out.val[2].start = entries[3].start

\* as Covers, and every entry of outv made of two or more entries of es
\* has a text shorter than max_len characters
RECURSIVE CoversBelow(_, _, _, _, _, _)
CoversBelow(outv, o, es, i, sep_, max_len) ==
    IF o > Len(outv) THEN i > Len(es)
    ELSE \E j \in i .. Len(es) :
            /\ outv[o].index = o
            /\ outv[o].start = es[i].start
            /\ outv[o].end = es[j].end
            /\ outv[o].text = JoinedText(es, i, j, sep_)
            /\ j > i => Len(outv[o].text) < max_len
            /\ CoversBelow(outv, o + 1, es, j + 1, sep_, max_len)

\* C20: merge_by_length merges an entry into the running accumulator exactly
\* when its start minus the accumulator's end is < interval and the raw
\* character length of the concatenated text would stay < max_length; hence
\* every output entry formed from two or more input entries has
\* len(text) < max_length, and the output is numbered 1..N.
MergeByLengthStaysBelowMax ==
    (srtOp = "merge_by_length" /\ out.exc = "none") =>
        CoversBelow(out.val, 1, entries, 1, sep, max_length)

----------------------------------------------------------------------------
(* TTSProcessor._text_to_speech (tts.py): calls of _tts until one succeeds.
   A call of _tts builds the Communicate object, opens output_file for
   writing (which creates or empties it) and writes the audio chunks as they
   arrive; it may raise at any of these points. A chunk in the file is the
   number of the call that wrote it; 0 is a clip left by an earlier run. *)

\* the other groups are idle
EarlyUnused ==
    /\ TextUnused /\ SrtUnused /\ LinesUnused /\ TrUnused /\ AskUnused
    /\ AdjUnused /\ MatchUnused /\ RunUnused

earlyVars == <<textVars, srtVars, linesVars, trVars, askVars, adjVars, matchVars, runVars>>

SynthInit ==
    /\ synthFile \in {None, SomeStr(<<0>>)}
    /\ synthPc = "call"
    /\ synthTry = 1
    /\ synthCount = 1
    /\ synthSlept = <<>>
    /\ synthFailedAt = <<>>
    /\ synthRet = NoCall
    /\ EarlyUnused /\ LateUnusedBut("synth")

SynthFrame == UNCHANGED <<earlyVars, execVars, ttsVars, loopVars>>

\* lines 80-82: Communicate(text, voice) and open(output_file, "wb")
SynthOpen ==
    /\ synthPc = "call"
    /\ synthPc' = "stream"
    /\ synthFile' = SomeStr(<<>>)
    /\ UNCHANGED <<synthTry, synthCount, synthSlept, synthFailedAt, synthRet>>
    /\ SynthFrame

\* lines 83-85: an audio chunk arrives and is written
SynthChunk ==
    /\ synthPc = "stream"
    /\ Len(synthFile[1]) < MaxChunks
    /\ synthFile' = SomeStr(Append(synthFile[1], synthTry))
    /\ UNCHANGED <<synthPc, synthTry, synthCount, synthSlept, synthFailedAt, synthRet>>
    /\ SynthFrame

\* lines 95 and 112-113, 123-124: the stream ends, _tts returns, the loop breaks
SynthSucceeds ==
    /\ synthPc = "stream"
    /\ synthPc' = "returned"
    /\ synthRet' = Return(synthTry)
    /\ UNCHANGED <<synthFile, synthTry, synthCount, synthSlept, synthFailedAt>>
    /\ SynthFrame

\* os.remove(path): FileNotFoundError when there is no such file
os_remove(file) == IF file = None THEN Raise("FileNotFoundError") ELSE Return(None)

\* lines 114-120: _tts raises, before the file is opened or while chunks
\* arrive; the handler removes the file, sleeps and doubles count
SynthFails ==
    /\ synthPc \in {"call", "stream"}
    /\ Len(synthFailedAt) < MaxSynthFail
    /\ synthFailedAt' = Append(synthFailedAt,
                               IF synthPc = "call" THEN "before open"
                               ELSE IF synthFile[1] = <<>> THEN "after open" ELSE "after chunk")
    /\ IF os_remove(synthFile).exc # "none"
       THEN /\ synthPc' = "raised"
            /\ synthRet' = os_remove(synthFile)
            /\ UNCHANGED <<synthFile, synthTry, synthCount, synthSlept>>
       ELSE /\ synthFile' = None
            /\ synthSlept' = Append(synthSlept, synthCount)
            /\ synthCount' = synthCount * 2
            /\ synthTry' = synthTry + 1
            /\ synthPc' = "call"
            /\ UNCHANGED synthRet
    /\ SynthFrame

SynthNext == SynthOpen \/ SynthChunk \/ SynthSucceeds \/ SynthFails

SynthSpec == SynthInit /\ [][SynthNext]_vars

\* C21: speech synthesis is retried with exponential backoff. When a call of
\* _tts fails at any point, before or after the output file was created,
\* _text_to_speech discards the partially written clip, waits 1, 2, 4, ...
\* seconds and tries again; the failure is never propagated to the caller,
\* and when the call returns the output file holds only the audio of the
\* successful attempt.
SynthesisRetriesEveryFailure ==
    /\ synthRet.exc \in {"nocall", "none"}
    /\ \A k \in 1 .. Len(synthSlept) : synthSlept[k] = Pow2(k - 1)
    /\ Len(synthSlept) = Len(synthFailedAt)
    /\ synthPc = "call" /\ synthFailedAt # <<>> => synthFile = None
    /\ synthRet.exc = "none" =>
        /\ synthFile # None
        /\ \A k \in 1 .. Len(synthFile[1]) : synthFile[1][k] = synthRet.val

----------------------------------------------------------------------------
(* AsyncBackgroundExecutor (executor.py). The caller thread calls execute
   for every coroutine and then wait_all; the loop thread runs the
   coroutines. A Future finishes under its own condition lock, wakes the
   waiters and then invokes the callbacks registered until then;
   add_done_callback on a finished Future calls the callback at once, in the
   calling thread. *)

Tasks == 1 .. MaxTasks

ExecInit ==
    /\ pending_futures = {}
    /\ futState = [k \in Tasks |-> "none"]
    /\ registered = [k \in Tasks |-> FALSE]
    /\ toInvoke = [k \in Tasks |-> FALSE]
    /\ removedBy = [k \in Tasks |-> "none"]
    /\ callerPc = "execute"
    /\ callerK = 0
    /\ current_snapshot = {}
    /\ waitRet = NoCall
    /\ EarlyUnused /\ LateUnusedBut("exec")

ExecFrame == UNCHANGED <<earlyVars, synthVars, ttsVars, loopVars>>

\* line 29: asyncio.run_coroutine_threadsafe(coro, self._loop)
Submit ==
    /\ callerPc = "execute"
    /\ callerK < MaxTasks
    /\ futState' = [futState EXCEPT ![callerK + 1] = "running"]
    /\ callerK' = callerK + 1
    /\ callerPc' = "add"
    /\ UNCHANGED <<pending_futures, registered, toInvoke, removedBy, current_snapshot, waitRet>>
    /\ ExecFrame

\* lines 30-31: with self._lock: self._pending_futures.add(future)
AddPending ==
    /\ callerPc = "add"
    /\ pending_futures' = pending_futures \cup {callerK}
    /\ callerPc' = "add_done_callback"
    /\ UNCHANGED <<futState, registered, toInvoke, removedBy, callerK, current_snapshot, waitRet>>
    /\ ExecFrame

\* line 32: future.add_done_callback(self._remove_future); on a finished
\* Future _remove_future (lines 35-38) runs here
AddDoneCallback ==
    /\ callerPc = "add_done_callback"
    /\ IF futState[callerK] = "finished"
       THEN /\ pending_futures' = pending_futures \ {callerK}
            /\ removedBy' = [removedBy EXCEPT ![callerK] = "caller"]
            /\ UNCHANGED registered
       ELSE /\ registered' = [registered EXCEPT ![callerK] = TRUE]
            /\ UNCHANGED <<pending_futures, removedBy>>
    /\ callerPc' = "execute"
    /\ UNCHANGED <<futState, toInvoke, callerK, current_snapshot, waitRet>>
    /\ ExecFrame

\* the loop thread: the coroutine of task k is over and its Future finishes
Finish(k) ==
    /\ futState[k] = "running"
    /\ futState' = [futState EXCEPT ![k] = "finished"]
    /\ toInvoke' = [toInvoke EXCEPT ![k] = registered[k]]
    /\ UNCHANGED <<pending_futures, registered, removedBy, callerPc, callerK,
                   current_snapshot, waitRet>>
    /\ ExecFrame

\* the loop thread invokes the callbacks: _remove_future (lines 35-38)
RemoveFuture(k) ==
    /\ toInvoke[k]
    /\ toInvoke' = [toInvoke EXCEPT ![k] = FALSE]
    /\ pending_futures' = pending_futures \ {k}
    /\ removedBy' = [removedBy EXCEPT ![k] = "loop"]
    /\ UNCHANGED <<futState, registered, callerPc, callerK, current_snapshot, waitRet>>
    /\ ExecFrame

\* wait_all waits for no future at all
current_futures_none(pend) == {}
\* lines 42-43: with self._lock: current_futures = list(self._pending_futures)
current_futures(pend) == pend

\* lines 42-43, after the last execute
WaitAllSnapshot ==
    /\ callerPc = "execute"
    /\ callerK = MaxTasks
    /\ current_snapshot' = current_futures(pending_futures)
    /\ callerPc' = "wait"
    /\ UNCHANGED <<pending_futures, futState, registered, toInvoke, removedBy, callerK, waitRet>>
    /\ ExecFrame

\* lines 46-56 with timeout None: concurrent.futures.wait returns when every
\* future of the snapshot has finished
WaitAllReturns ==
    /\ callerPc = "wait"
    /\ \A k \in current_snapshot : futState[k] = "finished"
    /\ callerPc' = "returned"
    /\ waitRet' = Return(None)
    /\ UNCHANGED <<pending_futures, futState, registered, toInvoke, removedBy, callerK,
                   current_snapshot>>
    /\ ExecFrame

ExecNext ==
    \/ Submit
    \/ AddPending
    \/ AddDoneCallback
    \/ \E k \in Tasks : Finish(k)
    \/ \E k \in Tasks : RemoveFuture(k)
    \/ WaitAllSnapshot
    \/ WaitAllReturns

ExecSpec == ExecInit /\ [][ExecNext]_vars

\* a finished future is in the pending set only until a step that is already
\* due removes it: the loop thread's callback call, or the caller's
\* add_done_callback
RemovalIsDue(k) ==
    \/ toInvoke[k]
    \/ callerK = k /\ callerPc = "add_done_callback"

\* execute has put the future of task k into the pending set
Added(k) == k < callerK \/ (k = callerK /\ callerPc # "add")

\* C22: wait_all called without a timeout returns only after every coroutine
\* submitted through execute before the call has finished running, for every
\* interleaving of task completion on the loop thread with execute and
\* wait_all on the caller thread; a future is never removed from the pending
\* set before it is done, and a future that is done does not stay in the
\* pending set.
WaitAllWaitsForEverySubmitted ==
    /\ waitRet.exc = "none" => \A k \in Tasks : futState[k] = "finished"
    /\ \A k \in Tasks :
        /\ removedBy[k] # "none" => futState[k] = "finished"
        /\ futState[k] = "running" /\ Added(k) => k \in pending_futures
        /\ k \in pending_futures /\ futState[k] = "finished" => RemovalIsDue(k)

\* wait_all has returned; the first coroutine finished before execute had
\* registered the callback, the last one while wait_all was waiting for it
WaitedForLateTask ==
    /\ waitRet.exc = "none"
    /\ removedBy[1] = "caller"
    /\ MaxTasks \in current_snapshot
    /\ removedBy[MaxTasks] = "loop"

----------------------------------------------------------------------------
(* The order of the requests of translate_lines, under LinesSpec. *)

\* the tag-protocol requests among the first k requests
RECURSIVE HtmlCount(_, _)
HtmlCount(rs, k) ==
    IF k = 0 THEN 0 ELSE HtmlCount(rs, k - 1) + (IF rs[k] = "html" THEN 1 ELSE 0)

\* C23: protocol-level retry ordering in translate_lines. It issues at most
\* try_html tag-protocol requests, stops at the first one that parses into
\* exactly N lines, issues the single plain-translation request if and only
\* if all try_html tag attempts failed (immediately when try_html = 0), and a
\* malformed tag response is never raised as an error.
TagAttemptsThenOneFallback ==
    tlPc \in {"run", "done"} =>
        LET n == Len(requests)
            h == HtmlCount(requests, n)
        IN  /\ h <= try_html
            /\ h = Len(parsed)
            /\ \A k \in 1 .. n : requests[k] = "text" => k = n /\ k = try_html + 1
            /\ \A k \in 1 .. h : parsed[k] = Len(lines) => k = h /\ n = h /\ tlPc = "done"
            /\ (n > 0 /\ requests[n] = "text") =>
                  /\ tlPc = "done"
                  /\ \A k \in 1 .. h : parsed[k] # Len(lines)
            /\ tlPc = "done" =>
                  \/ requests[n] = "text"
                  \/ parsed[h] = Len(lines) /\ result = Return(result.val)
                                            /\ Len(result.val) = Len(lines)
            /\ (tlPc = "run" /\ h = try_html) => ENABLED Fallback
            /\ (n = 0 \/ requests[n] = "html") => result.exc \in {"nocall", "none"}

\* translate_lines is over after a tag reply that did not parse, a second
\* tag request whose reply did, and no plain request
SecondTagAttemptParsed ==
    /\ tlPc = "done"
    /\ requests = <<"html", "html">>
    /\ parsed[1] # Len(lines)
    /\ parsed[2] = Len(lines)
    /\ Len(lines) > 1

----------------------------------------------------------------------------
(* The borrowing steps of _adjust_time, under AdjSpec. *)

\* what line k took from line j in the step from the current state to the
\* next: the fall of j's slack
Taken(j) == has_time[j] - has_time'[j]

\* the step is the loop iteration of line k and it does what the borrowing
\* rule says: first the line before, then the line after, each only above
\* the threshold and by min(deficit, neighbour's slack - Margin)
StepFollowsRule(k) ==
    LET n == Len(audios)
        threshold == Max(min_borrow, Margin)
        p == IF k > 1 THEN Taken(k - 1) ELSE 0
        q == IF k < n THEN Taken(k + 1) ELSE 0
        deficit == -has_time[k]
        prevCan == k > 1 /\ has_time[k - 1] > threshold
        nextCan == k < n /\ has_time[k + 1] > threshold
    IN  /\ \A j \in 1 .. n : j \notin {k - 1, k, k + 1} =>
              has_time'[j] = has_time[j] /\ adjSrt'[j] = adjSrt[j]
        /\ has_time'[k] = has_time[k] + p + q
        /\ deficit <= 0 => p = 0 /\ q = 0 /\ adjSrt' = adjSrt
        /\ deficit > 0 =>
              /\ p = (IF prevCan THEN Min(deficit, has_time[k - 1] - Margin) ELSE 0)
              /\ q = (IF deficit - p > 0 /\ nextCan
                      THEN Min(deficit - p, has_time[k + 1] - Margin) ELSE 0)
        /\ p >= 0 /\ q >= 0

\* C24: time-borrowing order and amount in _adjust_time. A line i with
\* negative slack first borrows from line i-1 and only afterwards, if its
\* slack is still negative, from line i+1; it borrows from a neighbour only
\* if that neighbour's current slack is > max(min_borrow, 0.1); the amount is
\* min(-slack_i, neighbour's slack - 0.1); lines with non-negative slack never
\* borrow, no line other than i-1 and i+1 is changed on behalf of line i, and
\* a line that has borrowed never lends.
BorrowsFromNeighboursInOrder ==
    /\ [](borrowed \cap lent = {})
    /\ [][adjI' = adjI + 1 => StepFollowsRule(adjI + 1)]_vars

\* _adjust_time has returned after a line took time from the line before it
\* and, still short, from the line after it
BorrowedFromBothNeighbours ==
    /\ segs.exc = "none"
    /\ \E k \in borrowed :
        /\ k - 1 \in lent /\ k + 1 \in lent
        /\ adjSrt[k].start < fill_time(adjIn)[k].start
        /\ adjSrt[k].end > fill_time(adjIn)[k].end

----------------------------------------------------------------------------
(* The sections and batches of translate_srt, under TrSpec. *)

\* the sections one after the other
RECURSIVE Flattened(_)
Flattened(ss) == IF ss = <<>> THEN <<>> ELSE ss[1] \o Flattened(Tail(ss))

\* the positions (1-based, within section b[1]) of the entries of batch b
BatchPositions(b) == {p \in 1 .. Len(secs[b[1]]) : b[2] < p /\ p <= b[2] + batch_size}

\* next.start - previous.end
Gap(previous, next) == next.start - previous.end

\* C25: batch partition. translate_srt assigns every timeline entry to
\* exactly one batch; each batch is a run of consecutive entries of a single
\* section and has between 1 and batch_size entries; sections are the
\* maximal runs of consecutive entries in which no adjacent gap
\* (next.start - previous.end) exceeds section_interval, so no batch
\* contains two adjacent entries separated by more than section_interval.
BatchesPartitionTimeline ==
    tlPc = "unused" /\ secPc # <<>> =>
        /\ Flattened(secs) = srt
        /\ \A k \in 1 .. Len(secs) :
            /\ secs[k] # <<>>
            /\ \A p \in 1 .. Len(secs[k]) - 1 :
                  Gap(secs[k][p], secs[k][p + 1]) <= SectionInterval * TimeDen
            /\ k < Len(secs) =>
                  Gap(secs[k][Len(secs[k])], secs[k + 1][1]) > SectionInterval * TimeDen
            /\ \A p \in 1 .. Len(secs[k]) :
                  Cardinality({b \in BatchesOf(k) : p \in BatchPositions(b)}) = 1
        /\ \A b \in Batches :
            /\ Cardinality(BatchPositions(b)) \in 1 .. batch_size
            /\ Len(BatchLines(b)) = Cardinality(BatchPositions(b))
            /\ \A p \in BatchPositions(b) :
                  /\ BatchLines(b)[p - b[2]] = secs[b[1]][p].text
                  /\ (p + 1 \in BatchPositions(b)) =>
                        Gap(secs[b[1]][p], secs[b[1]][p + 1]) <= SectionInterval * TimeDen

\* translate_srt has returned for a timeline cut into two sections, one
\* translated as a full batch of two entries and one as a batch of one
TwoSectionsUnevenBatches ==
    /\ translated.exc = "none"
    /\ Len(secs) = 2
    /\ batch_size = 2
    /\ \E b \in Batches : Cardinality(BatchPositions(b)) = 2
    /\ \E b \in Batches : Cardinality(BatchPositions(b)) = 1

----------------------------------------------------------------------------
(* The rate limiter of LLMClient.ask, under AskSpec. *)

\* how often caller c has been admitted by self.limiter: "async with" at
\* line 50 is entered once per call of ask
Acquisitions(c) == IF askPc[c] \in {"create", "done"} THEN 1 ELSE 0

\* C26: issuance of requests to the translation backend is rate-limited by
\* one limiter shared by all in-flight batches of a translator. Every request
\* attempt sent to the backend, first attempt or retry, is preceded by its
\* own acquisition from that limiter, so the number of attempts started per
\* interval never exceeds the configured ceiling.
EveryAttemptAcquiresLimiter ==
    \A c \in Callers : Len(sent[c]) <= Acquisitions(c)

----------------------------------------------------------------------------
(* Well-formed entries after correct_time, under FlowSpec. *)

\* ordered by start, and every entry ends no earlier than it starts
WellFormed(es) ==
    /\ \A k \in 1 .. Len(es) : es[k].start <= es[k].end
    /\ \A k \in 1 .. (Len(es) - 1) : es[k].start <= es[k + 1].start

\* C27: correct_time keeps every entry well-formed. For a timeline ordered
\* by start whose entries all satisfy start <= end, after correct_time with
\* modify_start False and after correct_time with modify_start True every
\* entry still satisfies start <= end.
CorrectTimeKeepsWellFormed ==
    (srtOp = "correct_time" /\ WellFormed(entries)) =>
        \A k \in 1 .. Len(self_after) : self_after[k].start <= self_after[k].end

----------------------------------------------------------------------------
(* The target timeline of _adjust_time as a partition, under AdjSpec. *)

RECURSIVE SumSlack(_)
SumSlack(h) == IF h = <<>> THEN 0 ELSE h[1] + SumSlack(Tail(h))

\* every entry ends where the next one starts
Contiguous(es) == \A k \in 1 .. (Len(es) - 1) : es[k].end = es[k + 1].start

\* the timeline es spans exactly what the timeline of the caller spans
SameSpan(es, input) ==
    /\ es[1].start = input[1].start
    /\ es[Len(es)].end = input[Len(input)].end

\* C28: the target timeline produced by _adjust_time stays an exact
\* partition of the original span. After fill_time and after any sequence of
\* borrow steps every entry's end equals the next entry's start, the first
\* start and the last end equal those of the input timeline, every entry
\* that lent time keeps a positive target duration, the sum of all slacks is
\* unchanged by borrowing, and the SRT object of the caller is not modified.
AdjustKeepsPartition ==
    /\ [](adjSrt # <<>> =>
            /\ Contiguous(adjSrt)
            /\ SameSpan(adjSrt, adjIn)
            /\ \A k \in lent : adjSrt[k].end - adjSrt[k].start > 0
            /\ SumSlack(has_time) = SumSlack(initial_has_time(fill_time(adjIn), audios))
            /\ \A k \in 1 .. Len(has_time) :
                  has_time[k] = adjSrt[k].end - adjSrt[k].start - audios[k]
            /\ segs.exc = "none" =>
                  /\ \A k \in 1 .. (Len(segs.val) - 1) :
                        segs.val[k].start + segs.val[k].expected_dur = segs.val[k + 1].start
                  /\ segs.val[1].start = adjIn[1].start
                  /\ segs.val[Len(segs.val)].start + segs.val[Len(segs.val)].expected_dur
                        = adjIn[Len(adjIn)].end)
    /\ [][adjIn' = adjIn]_vars

\* _adjust_time has returned for a timeline with gaps that fill_time closed,
\* after the first and the last line both lent time to the line between them
PartitionAfterFillAndBorrow ==
    /\ segs.exc = "none"
    /\ ~Contiguous(adjIn)
    /\ Len(adjIn) = MaxAdj
    /\ 1 \in lent /\ Len(adjIn) \in lent
    /\ adjSrt[1].end < fill_time(adjIn)[1].end
    /\ adjSrt[Len(adjSrt)].start > fill_time(adjIn)[Len(adjIn)].start

----------------------------------------------------------------------------
(* tts.py: the synthesis sections of TTSProcessor.srt_tts (lines 200-235).
   An entry is modelled by len(e), the length of its text. *)

TtsInit ==
    /\ \E n \in 0 .. MaxTtsLines : ttsSrt \in [1 .. n -> 0 .. MaxTtsText]
    /\ ttsMaxLength \in 1 .. MaxTtsLimit
    /\ section_indexes = <<>>
    /\ ttsStart = 0
    /\ ttsLength = 0
    /\ ttsI = 0
    /\ ttsPc = "loop"
    /\ ttsRet = NoCall
    /\ EarlyUnused /\ LateUnusedBut("tts")

TtsFrame ==
    /\ UNCHANGED <<ttsSrt, ttsMaxLength>>
    /\ UNCHANGED <<earlyVars, synthVars, execVars, loopVars>>

\* lines 204-208: the entry i = ttsI does not fit, the section ends before it
SectionCut ==
    /\ ttsPc = "loop"
    /\ ttsI < Len(ttsSrt)
    /\ ttsLength + ttsSrt[ttsI + 1] > ttsMaxLength
    /\ section_indexes' = Append(section_indexes, <<ttsStart, ttsI>>)
    /\ ttsStart' = ttsI
    /\ ttsLength' = ttsSrt[ttsI + 1]
    /\ ttsI' = ttsI + 1
    /\ UNCHANGED <<ttsPc, ttsRet>>
    /\ TtsFrame

\* lines 209-210: the entry joins the current section
SectionGrow ==
    /\ ttsPc = "loop"
    /\ ttsI < Len(ttsSrt)
    /\ ttsLength + ttsSrt[ttsI + 1] <= ttsMaxLength
    /\ ttsLength' = ttsLength + ttsSrt[ttsI + 1]
    /\ ttsI' = ttsI + 1
    /\ UNCHANGED <<section_indexes, ttsStart, ttsPc, ttsRet>>
    /\ TtsFrame

\* line 211: section_indexes.append((start, len(srt)))
SectionLast ==
    /\ ttsPc = "loop"
    /\ ttsI = Len(ttsSrt)
    /\ section_indexes' = Append(section_indexes, <<ttsStart, Len(ttsSrt)>>)
    /\ ttsPc' = "gather"
    /\ UNCHANGED <<ttsStart, ttsLength, ttsI, ttsRet>>
    /\ TtsFrame

\* srt[s:e] is empty
EmptySection(p) == p[1] >= p[2]

\* lines 219 and 235: _task(srt[s:e], ...) reads entries[-1] and entries[0];
\* gather propagates the exception of a task
GatherRaises ==
    /\ ttsPc = "gather"
    /\ \E k \in 1 .. Len(section_indexes) : EmptySection(section_indexes[k])
    /\ ttsRet' = Raise("IndexError")
    /\ ttsPc' = "done"
    /\ UNCHANGED <<section_indexes, ttsStart, ttsLength, ttsI>>
    /\ TtsFrame

\* line 235: one list of lines per section
GatherReturns ==
    /\ ttsPc = "gather"
    /\ \A k \in 1 .. Len(section_indexes) : ~EmptySection(section_indexes[k])
    /\ ttsRet' = Return(section_indexes)
    /\ ttsPc' = "done"
    /\ UNCHANGED <<section_indexes, ttsStart, ttsLength, ttsI>>
    /\ TtsFrame

TtsNext == SectionCut \/ SectionGrow \/ SectionLast \/ GatherRaises \/ GatherReturns

TtsSpec == TtsInit /\ [][TtsNext]_vars

\* the total text length of the entries srt[a:b]
RECURSIVE SectionLength(_, _, _)
SectionLength(ls, a, b) == IF a >= b THEN 0 ELSE ls[a + 1] + SectionLength(ls, a + 1, b)

\* C29: srt_tts partitions the timeline into synthesis sections that are
\* non-empty, consecutive and cover every entry exactly once in order, for
\* every timeline and every max_length (including a first or any single
\* entry whose text is longer than max_length); a section's total text
\* length exceeds max_length only when it consists of a single entry.
SynthesisSectionsPartition ==
    (ttsPc \in {"gather", "done"} /\ ttsSrt # <<>>) =>
        /\ section_indexes # <<>>
        /\ section_indexes[1][1] = 0
        /\ section_indexes[Len(section_indexes)][2] = Len(ttsSrt)
        /\ \A k \in 1 .. Len(section_indexes) : ~EmptySection(section_indexes[k])
        /\ \A k \in 1 .. (Len(section_indexes) - 1) :
              section_indexes[k][2] = section_indexes[k + 1][1]
        /\ \A k \in 1 .. Len(section_indexes) :
              SectionLength(ttsSrt, section_indexes[k][1], section_indexes[k][2]) > ttsMaxLength
                  => section_indexes[k][2] = section_indexes[k][1] + 1

----------------------------------------------------------------------------
(* executor.py, llm.py, tts.py: the requests scheduled on the one event loop
   of AsyncBackgroundExecutor.  _run_event_loop (lines 21-25) runs the loop
   in a single thread and execute (lines 27-33) schedules every coroutine on
   it, so one coroutine runs at a time, from one await to the next.  A task
   is a call of LLMClient.ask (llm.py 50-64) or a _task of srt_tts
   (tts.py 232-233, 110-122). *)

LoopTasks == 1 .. MaxLoopTasks

\* what a request holds while it is sent: "async with self.sem, self.limiter"
\* (llm.py 50), "async with limiter" (tts.py 232)
Gates(kind) == IF kind = "ask" THEN {"sem", "limiter"} ELSE {"limiter"}

LoopInit ==
    /\ loopKind \in [LoopTasks -> {"ask", "tts"}]
    /\ loopPc = [t \in LoopTasks |-> "called"]
    /\ loopThread = None
    /\ loopSem \in {1, 2}
    /\ loopHolds = [t \in LoopTasks |-> {}]
    /\ loopCount = [t \in LoopTasks |-> 0]
    /\ loopWait = [t \in LoopTasks |-> 0]
    /\ EarlyUnused /\ LateUnusedBut("loop")

LoopFrame == UNCHANGED <<earlyVars, synthVars, execVars, ttsVars, loopKind>>

\* the loop thread can run task t: it is inside no other task
ThreadFreeFor(t) == loopThread \in {None, Some(t)}

\* llm.py 50, "async with self.sem"; a _task has no semaphore
AcquireGate(t) ==
    /\ ThreadFreeFor(t)
    /\ loopPc[t] = "called"
    /\ IF loopKind[t] = "ask"
       THEN /\ loopSem > 0
            /\ loopSem' = loopSem - 1
            /\ loopHolds' = [loopHolds EXCEPT ![t] = @ \cup {"sem"}]
       ELSE UNCHANGED <<loopSem, loopHolds>>
    /\ loopPc' = [loopPc EXCEPT ![t] = "limiter"]
    /\ UNCHANGED <<loopThread, loopCount, loopWait>>
    /\ LoopFrame

\* llm.py 50-54 and tts.py 232, 109-114: the limiter admits the task, which
\* sets count = 1, sends its request and awaits the reply
Admit(t) ==
    /\ ThreadFreeFor(t)
    /\ loopPc[t] = "limiter"
    /\ loopHolds' = [loopHolds EXCEPT ![t] = @ \cup {"limiter"}]
    /\ loopCount' = [loopCount EXCEPT ![t] = 1]
    /\ loopPc' = [loopPc EXCEPT ![t] = "request"]
    /\ UNCHANGED <<loopThread, loopSem, loopWait>>
    /\ LoopFrame

\* "await asyncio.sleep(count)": the coroutine yields, the thread is free
asyncio_sleep(t) == None
\* llm.py 63 and tts.py 121, time.sleep(count): the call returns count
\* seconds later and the thread stays inside task t until then
time_sleep(t) == Some(t)

\* llm.py 60-63 and tts.py 116-121: the loop resumes the task with the
\* exception of its request, and the handler calls time.sleep(count)
RequestFails(t) ==
    /\ ThreadFreeFor(t)
    /\ loopPc[t] = "request"
    /\ loopCount[t] < Pow2(MaxLoopFail)
    /\ loopPc' = [loopPc EXCEPT ![t] = "sleep"]
    /\ loopWait' = [loopWait EXCEPT ![t] = loopCount[t]]
    /\ loopThread' = time_sleep(t)
    /\ UNCHANGED <<loopSem, loopHolds, loopCount>>
    /\ LoopFrame

\* a second of a time.sleep passes
Tick(t) ==
    /\ loopPc[t] = "sleep"
    /\ loopWait[t] > 1
    /\ loopWait' = [loopWait EXCEPT ![t] = @ - 1]
    /\ UNCHANGED <<loopPc, loopThread, loopSem, loopHolds, loopCount>>
    /\ LoopFrame

\* llm.py 64, 52-54 and tts.py 122, 110-114: the sleep is over, count
\* doubles, the request is sent again and the task awaits the reply
WakeUp(t) ==
    /\ ThreadFreeFor(t)
    /\ loopPc[t] = "sleep"
    /\ loopWait[t] = 1
    /\ loopWait' = [loopWait EXCEPT ![t] = 0]
    /\ loopCount' = [loopCount EXCEPT ![t] = count_doubled(@)]
    /\ loopPc' = [loopPc EXCEPT ![t] = "request"]
    /\ loopThread' = None
    /\ UNCHANGED <<loopSem, loopHolds>>
    /\ LoopFrame

\* llm.py 55-59, 65-72 and tts.py 114-115, 123-124: the reply arrives, the
\* loop resumes the task, which leaves its "async with" and returns
RequestSucceeds(t) ==
    /\ ThreadFreeFor(t)
    /\ loopPc[t] = "request"
    /\ loopPc' = [loopPc EXCEPT ![t] = "done"]
    /\ loopSem' = IF "sem" \in loopHolds[t] THEN loopSem + 1 ELSE loopSem
    /\ loopHolds' = [loopHolds EXCEPT ![t] = {}]
    /\ UNCHANGED <<loopThread, loopCount, loopWait>>
    /\ LoopFrame

LoopNext ==
    \/ \E t \in LoopTasks : AcquireGate(t)
    \/ \E t \in LoopTasks : Admit(t)
    \/ \E t \in LoopTasks : RequestFails(t)
    \/ \E t \in LoopTasks : Tick(t)
    \/ \E t \in LoopTasks : WakeUp(t)
    \/ \E t \in LoopTasks : RequestSucceeds(t)

LoopSpec == LoopInit /\ [][LoopNext]_vars

\* what the other tasks are doing
OtherTasks(t) ==
    [u \in DOMAIN loopPc \ {t} |-> <<loopPc[u], loopHolds[u], loopCount[u], loopWait[u]>>]

\* task t is between the first sending of its request and its return
InRetrySequence(t) == loopPc[t] \in {"request", "sleep"}

\* C30: the backoff wait of a failed translation or synthesis request is a
\* blocking sleep on the single shared event-loop thread. While one request
\* waits to retry, no other task scheduled on that loop takes a step, and
\* the waiting request keeps holding its concurrency-gate slot and its
\* rate-limiter admission for the whole retry sequence.
BackoffBlocksTheLoop ==
    /\ [](\A t \in DOMAIN loopPc :
            /\ loopPc[t] = "sleep" => loopThread = Some(t)
            /\ InRetrySequence(t) => loopHolds[t] = Gates(loopKind[t]))
    /\ [][\A t \in DOMAIN loopPc :
            loopPc[t] = "sleep" =>
                /\ OtherTasks(t)' = OtherTasks(t)
                /\ loopSem' = loopSem
                /\ loopHolds'[t] = loopHolds[t]]_vars

\* a translation request waits two seconds after its second failure, with
\* the only semaphore slot, while a synthesis request awaits its reply and
\* another translation request waits for the semaphore
SleeperHoldsUpOthers ==
    \E t, u, w \in DOMAIN loopPc :
        /\ loopKind[t] = "ask" /\ loopPc[t] = "sleep" /\ loopCount[t] = 2 /\ loopWait[t] = 1
        /\ loopKind[u] = "tts" /\ loopPc[u] = "request"
        /\ loopKind[w] = "ask" /\ loopPc[w] = "called" /\ loopSem = 0

====
